---- MODULE Spec2Model ----
(***************************************************************************)
(* PredicatedTileAccessIterator for pitch-linear tensors                   *)
(* (include/cutlass/transform/threadblock/predicated_tile_access_iterator.h)*)
(*                                                                         *)
(* One iterator instance is modelled.  `cfg` holds what is fixed when the  *)
(* iterator is instantiated and constructed (template arguments and        *)
(* constructor arguments), `it` holds the data members of the iterator and *)
(* of its PredicatedTileAccessIteratorPredicates.  Every member function   *)
(* is an operator from iterator state to iterator state, and one action    *)
(* applies it.  pointer_ is kept as a byte offset from the base pointer    *)
(* given to the constructor.  The field `computed` of `it` is a history    *)
(* field: the number of times compute_predicates_ has run.                 *)
(***************************************************************************)
EXTENDS Integers, Naturals, FiniteSets, Sequences, TLC

VARIABLES
    cfg,          \* template and constructor arguments (never change)
    it,           \* the iterator's data members
    logical,      \* history: logical coordinate of the thread's first access
                  \*          in the tile the caller has moved the iterator to
    calls,        \* history: number of calls made of each bounded operation
    monotone,     \* history: every add_tile_offset so far stepped forward on
                  \*          the advance axis only, and no add_pointer_offset
    mask_state    \* history: where predicates_ comes from:
                  \*          "computed", "cleared" or "overridden"

vars == <<cfg, it, logical, calls, monotone, mask_state>>

----------------------------------------------------------------------------
(* Bounds of the model                                                     *)

\* add_tile_offset calls made on one iterator
MaxTileAdvances == 3

\* add_pointer_offset and set_iteration_index calls made on one iterator
MaxAuxCalls == 1

----------------------------------------------------------------------------
(* Constants of the program                                                *)

kPredicatesPerByte == 4

kPredicatesPerWord == 4 * kPredicatesPerByte

kBitsPerWord == 32

----------------------------------------------------------------------------
(* C++ integer arithmetic: / and % truncate toward zero                    *)

Abs(x) == IF x < 0 THEN -x ELSE x

Sign(x) == IF x < 0 THEN -1 ELSE 1

CDiv(a, b) == Sign(a) * Sign(b) * (Abs(a) \div Abs(b))

CMod(a, b) == a - b * CDiv(a, b)

Min(a, b) == IF b < a THEN b ELSE a

\* TensorCoord (layout::PitchLinearCoord)
make_Coord(c, s) == [contiguous |-> c, strided |-> s]

CoordAdd(a, b) == make_Coord(a.contiguous + b.contiguous, a.strided + b.strided)

----------------------------------------------------------------------------
(* Collaborators consumed by the iterator                                  *)

\* ThreadMap::initial_offset(thread_id) of a strip-mined pitch-linear thread
\* map: threads are laid out along the contiguous axis first.
initial_offset(tm, thread_id) ==
    LET vecC == tm.Shape.contiguous \div tm.kElementsPerAccess
    IN  make_Coord((thread_id % vecC) * tm.kElementsPerAccess, thread_id \div vecC)

\* layout::PitchLinear::operator(): element offset of a logical coordinate
Layout(stride, coord) == coord.contiguous + coord.strided * stride

\* sizeof_bits<Element>::value * offset / 8
OffsetBytes(c, offset) == CDiv(c.bits * offset, 8)

\* PredicatedTileAccessIteratorParams: byte increments precomputed from the
\* stride and the thread map.
Params(c) ==
    LET inc_strided == CDiv(c.stride * c.Delta.strided * c.bits, 8)
        inc_advance == IF c.kAdvanceRank = 1
                       THEN CDiv(c.Shape.strided * c.stride * c.bits, 8)
                       ELSE CDiv(c.Shape.contiguous * c.bits, 8)
    IN  [stride_      |-> c.stride,
         inc_strided_ |-> inc_strided,
         inc_advance_ |-> inc_advance,
         inc_next_    |-> inc_advance
                          - CDiv((c.Iterations.strided - 1) * c.Delta.strided
                                 * c.stride * c.bits, 8)]

\* Gather indices: the row each strided coordinate is looked up to
Indices(s) == 2 * s + 1

\* PermuteLayout::operator(): offset of a coordinate under the permutation
\* (a transposition of the tensor)
permute_layout_(c, coord) == coord.strided + coord.contiguous * c.stride

----------------------------------------------------------------------------
(* PredicatedTileAccessIteratorPredicates                                  *)

kAccessesPerVector(c) == c.kElementsPerAccess \div c.AccessElements

IterationsCount(c) == c.Iterations.contiguous * c.Iterations.strided

kPredicateCount(c) == IterationsCount(c) * kAccessesPerVector(c)

kPredicateByteCount(c) ==
    (kPredicateCount(c) + kPredicatesPerByte - 1) \div kPredicatesPerByte

kPredicateWordCount(c) == (kPredicateByteCount(c) + 3) \div 4

Words(c) == 0 .. (kPredicateWordCount(c) - 1)

\* A uint32_t word is the set of its bit positions that are 1.
ZeroMask(c) == [w \in Words(c) |-> {}]

FullMask(c) == [w \in Words(c) |-> 0 .. (kBitsPerWord - 1)]

\* word and bit holding the predicate pred_idx
PredWord(pred_idx) == pred_idx \div kPredicatesPerWord

\* PredBit packing the sixteen predicates of a word into its low sixteen bits
PredBit_dense(pred_idx) ==
    LET residual == pred_idx % kPredicatesPerWord
        byte_idx == residual \div kPredicatesPerByte
        bit_idx  == residual % kPredicatesPerByte
    IN  byte_idx * 4 + bit_idx

PredBit(pred_idx) ==
    LET residual == pred_idx % kPredicatesPerWord
        byte_idx == residual \div kPredicatesPerByte
        bit_idx  == residual % kPredicatesPerByte
    IN  byte_idx * 8 + bit_idx

\* coordinate of access access_idx of the thread, and its guard
AccessTriple(c, access_idx) ==
    LET s == access_idx \div (c.Iterations.contiguous * kAccessesPerVector(c))
        access_residual == access_idx % (c.Iterations.contiguous * kAccessesPerVector(c))
    IN  [v |-> access_residual % kAccessesPerVector(c),
         c |-> access_residual \div kAccessesPerVector(c),
         s |-> s]

IterationCoord(c, t) ==
    make_Coord(t.c * c.Delta.contiguous + t.v * c.AccessElements,
               t.s * c.Delta.strided)

\* Guard with the steady-state test made on the axis being advanced
Guard_advance_axis(c, coord, extent, is_steady_state) ==
    IF is_steady_state
    THEN IF c.kAdvanceRank = 0
         THEN coord.contiguous < extent.contiguous
         ELSE coord.strided < extent.strided
    ELSE coord.strided < extent.strided /\ coord.contiguous < extent.contiguous

\* Guard whose 2-D test admits the coordinate equal to the extent
Guard_inclusive(c, coord, extent, is_steady_state) ==
    IF is_steady_state
    THEN IF c.kAdvanceRank = 0
         THEN coord.strided < extent.strided
         ELSE coord.contiguous < extent.contiguous
    ELSE coord.strided <= extent.strided /\ coord.contiguous <= extent.contiguous

\* Guard making the 2-D test in steady state too
Guard_both_axes(c, coord, extent, is_steady_state) ==
    coord.strided < extent.strided /\ coord.contiguous < extent.contiguous

Guard(c, coord, extent, is_steady_state) ==
    IF is_steady_state
    THEN IF c.kAdvanceRank = 0
         THEN coord.strided < extent.strided
         ELSE coord.contiguous < extent.contiguous
    ELSE coord.strided < extent.strided /\ coord.contiguous < extent.contiguous

PredIdx(c, t) == t.v + kAccessesPerVector(c) * (t.c + c.Iterations.contiguous * t.s)

compute_predicates_(c, i, extent, is_steady_state) ==
    LET set == { access_idx \in 0 .. (kPredicateCount(c) - 1) :
                   Guard(c,
                         CoordAdd(i.thread_offset_,
                                  IterationCoord(c, AccessTriple(c, access_idx))),
                         extent, is_steady_state) }
        idx(a) == PredIdx(c, AccessTriple(c, a))
    IN  [i EXCEPT !.predicates_ =
                    [w \in Words(c) |->
                       { PredBit(idx(a)) : a \in { x \in set : PredWord(idx(x)) = w } }],
                  !.computed = @ + 1]

\* set_iteration_index that decomposes the index strided-first
set_iteration_index_strided_first(c, i, index) ==
    LET residual_access == index \div kAccessesPerVector(c)
    IN  [i EXCEPT !.iteration_vector_     = index % kAccessesPerVector(c),
                  !.iteration_contiguous_ = residual_access \div c.Iterations.strided,
                  !.iteration_strided_    = residual_access % c.Iterations.strided]

\* set_iteration_index that also moves pointer_ to the strided row of index
set_iteration_index_moves_pointer(c, i, index) ==
    LET residual_access == index \div kAccessesPerVector(c)
        strided == residual_access \div c.Iterations.contiguous
    IN  [i EXCEPT !.iteration_vector_     = index % kAccessesPerVector(c),
                  !.iteration_contiguous_ = residual_access % c.Iterations.contiguous,
                  !.iteration_strided_    = strided,
                  !.pointer_ = @ + (strided - i.iteration_strided_)
                                     * CDiv(c.stride * c.Delta.strided * c.bits, 8)]

set_iteration_index(c, i, index) ==
    LET residual_access == index \div kAccessesPerVector(c)
    IN  [i EXCEPT !.iteration_vector_     = index % kAccessesPerVector(c),
                  !.iteration_contiguous_ = residual_access % c.Iterations.contiguous,
                  !.iteration_strided_    = residual_access \div c.Iterations.contiguous]

\* residue_size taken to be a full tile whatever the extent
residue_size_full_tile(c, extent, threadblock_offset) ==
    IF c.kAdvanceRank = 1 THEN c.Shape.strided ELSE c.Shape.contiguous

\* residue_size without the replacement of a zero remainder by a full tile
residue_size_zero(c, extent, threadblock_offset) ==
    IF c.kAdvanceRank = 1
    THEN CMod(extent.strided - threadblock_offset.strided, c.Shape.strided)
    ELSE CMod(extent.contiguous - threadblock_offset.contiguous, c.Shape.contiguous)

\* residue_size computed from the extent alone, whatever the threadblock offset
residue_size_of_extent(c, extent, threadblock_offset) ==
    IF c.kAdvanceRank = 1
    THEN LET r == CMod(extent.strided, c.Shape.strided)
         IN  IF r = 0 THEN c.Shape.strided ELSE r
    ELSE LET r == CMod(extent.contiguous, c.Shape.contiguous)
         IN  IF r = 0 THEN c.Shape.contiguous ELSE r

\* residue_size of set_predicates: what is left of the extent along the
\* advance axis modulo the tile, a full tile when nothing is left over
residue_size(c, extent, threadblock_offset) ==
    IF c.kAdvanceRank = 1
    THEN LET r == CMod(extent.strided - threadblock_offset.strided, c.Shape.strided)
         IN  IF r = 0 THEN c.Shape.strided ELSE r
    ELSE LET r == CMod(extent.contiguous - threadblock_offset.contiguous,
                       c.Shape.contiguous)
         IN  IF r = 0 THEN c.Shape.contiguous ELSE r

\* residue_extent left at the whole extent
residue_extent_unclipped(c, extent, threadblock_offset, size) == extent

\* residue_extent of set_predicates: the extent clipped to the residue tile
residue_extent(c, extent, threadblock_offset, size) ==
    IF c.kAdvanceRank = 1
    THEN make_Coord(extent.contiguous,
                    Min(threadblock_offset.strided + size, extent.strided))
    ELSE make_Coord(Min(extent.contiguous, threadblock_offset.contiguous + size),
                    extent.strided)

set_predicates(c, i, thread_id, threadblock_offset) ==
    LET size == residue_size(c, i.extent_, threadblock_offset)
        i1 == [i EXCEPT !.residue_offset_ =
                            IF c.kAdvanceRank = 1
                            THEN make_Coord(0, size)
                            ELSE make_Coord(size, 0),
                        !.thread_offset_ =
                            CoordAdd(threadblock_offset, initial_offset(c, thread_id))]
    IN  set_iteration_index(c,
          compute_predicates_(c, i1,
            residue_extent(c, i1.extent_, threadblock_offset, size), FALSE),
          0)

\* clear_mask with the sense of enable inverted
clear_mask_inverted(c, i, enable) ==
    [i EXCEPT !.predicates_ = [w \in Words(c) |-> IF enable THEN @[w] ELSE {}]]

\* clear_mask that zeroes the first predicate word only
clear_mask_first_word(c, i, enable) ==
    [i EXCEPT !.predicates_ =
        [w \in Words(c) |-> IF enable /\ w = 0 THEN {} ELSE @[w]]]

clear_mask(c, i, enable) ==
    [i EXCEPT !.predicates_ = [w \in Words(c) |-> IF enable THEN {} ELSE @[w]]]

\* enable_mask that re-enables only the words that still hold a set bit
enable_mask_unless_cleared(c, i) ==
    [i EXCEPT !.predicates_ =
        [w \in Words(c) |-> IF @[w] = {} THEN {} ELSE 0 .. (kBitsPerWord - 1)]]

enable_mask(c, i) ==
    [i EXCEPT !.predicates_ = [w \in Words(c) |-> 0 .. (kBitsPerWord - 1)]]

\* set_mask that stores only the bits that guard an access
set_mask_used_bits(c, i, mask) ==
    [i EXCEPT !.predicates_ =
        [w \in Words(c) |->
           mask[w] \cap { PredBit(k) : k \in { x \in 0 .. (kPredicateCount(c) - 1) :
                                                 PredWord(x) = w } }]]

\* set_mask that also rewinds the cursor to the first access
set_mask_and_rewind(c, i, mask) ==
    [i EXCEPT !.predicates_ = [w \in Words(c) |-> mask[w]],
              !.iteration_vector_ = 0,
              !.iteration_contiguous_ = 0,
              !.iteration_strided_ = 0]

set_mask(c, i, mask) ==
    [i EXCEPT !.predicates_ = [w \in Words(c) |-> mask[w]]]

get_mask(c, i) == [w \in Words(c) |-> i.predicates_[w]]

\* valid() that also tests the coordinate of the access against the extent
valid_within_extent(c, i) ==
    LET pred_idx == i.iteration_vector_
                    + kAccessesPerVector(c)
                      * (i.iteration_contiguous_
                         + i.iteration_strided_ * c.Iterations.contiguous)
        coord == CoordAdd(i.thread_offset_,
                          make_Coord(i.iteration_contiguous_ * c.Delta.contiguous
                                       + i.iteration_vector_ * c.AccessElements,
                                     i.iteration_strided_ * c.Delta.strided))
    IN  /\ PredBit(pred_idx) \in i.predicates_[PredWord(pred_idx)]
        /\ coord.contiguous < i.extent_.contiguous
        /\ coord.strided < i.extent_.strided

valid(c, i) ==
    LET pred_idx == i.iteration_vector_
                    + kAccessesPerVector(c)
                      * (i.iteration_contiguous_
                         + i.iteration_strided_ * c.Iterations.contiguous)
    IN  PredBit(pred_idx) \in i.predicates_[PredWord(pred_idx)]

----------------------------------------------------------------------------
(* PredicatedTileAccessIterator<PitchLinear>                               *)

Direct(c) == ~c.Gather /\ ~c.Permute

\* add_pointer_offset taking its argument in bytes instead of elements
add_pointer_offset_unscaled(c, i, pointer_offset) ==
    [i EXCEPT !.pointer_ = @ + pointer_offset]

add_pointer_offset(c, i, pointer_offset) ==
    [i EXCEPT !.pointer_ = @ + CDiv(c.bits * pointer_offset, 8)]

\* the constructor, from the arguments held in c
Construct(c) ==
    LET i0 == [predicates_           |-> ZeroMask(c),
               extent_               |-> c.extent,
               thread_offset_        |-> make_Coord(0, 0),
               residue_offset_       |-> make_Coord(0, 0),
               iteration_vector_     |-> 0,
               iteration_contiguous_ |-> 0,
               iteration_strided_    |-> 0,
               pointer_              |-> 0,
               is_residue_tile_      |-> TRUE,
               coord_offset_         |-> make_Coord(0, 0),
               computed              |-> 0]
        i1 == set_predicates(c, i0, c.thread_id, c.threadblock_offset)
    IN  IF Direct(c)
        THEN add_pointer_offset(c, i1, Layout(Params(c).stride_, i1.thread_offset_))
        ELSE LET i2 == [i1 EXCEPT !.coord_offset_ = i1.thread_offset_]
             IN  IF ~c.Permute
                 THEN add_pointer_offset(c, i2,
                        Layout(Params(c).stride_,
                               make_Coord(i2.coord_offset_.contiguous, 0)))
                 ELSE i2

\* the two branches of add_tile_offset
add_tile_offset_branches(c, i, tile_offset) ==
    LET p == Params(c)
    IN       IF i.is_residue_tile_
             THEN LET i1 == [i EXCEPT !.thread_offset_ =
                                        CoordAdd(@, i.residue_offset_)]
                      i2 == compute_predicates_(c, i1, i1.extent_, TRUE)
                  IN  IF Direct(c)
                      THEN LET i3 == add_pointer_offset(c, i2,
                                       Layout(p.stride_, i2.residue_offset_))
                           IN  IF c.kAdvanceRank = 1
                               THEN [i3 EXCEPT !.pointer_ =
                                       @ + p.inc_advance_ * (tile_offset.strided - 1)
                                         + CDiv(c.Shape.contiguous * tile_offset.contiguous
                                                * c.bits, 8)]
                               ELSE [i3 EXCEPT !.pointer_ =
                                       @ + p.inc_advance_ * (tile_offset.contiguous - 1)
                                         + CDiv(c.Shape.strided * tile_offset.strided
                                                * c.bits, 8)]
                      ELSE LET i3 == [i2 EXCEPT !.coord_offset_.strided =
                                        i2.thread_offset_.strided
                                        + c.Shape.strided
                                          * (tile_offset.strided - c.kAdvanceRank)]
                           IN  IF ~c.Permute
                               THEN add_pointer_offset(c,
                                      add_pointer_offset(c, i3,
                                        Layout(p.stride_,
                                               make_Coord(i3.residue_offset_.contiguous, 0))),
                                      c.Shape.contiguous
                                        * (tile_offset.contiguous - (1 - c.kAdvanceRank)))
                               ELSE [i3 EXCEPT !.coord_offset_.contiguous =
                                       i3.thread_offset_.contiguous
                                       + c.Shape.contiguous
                                         * (tile_offset.contiguous - (1 - c.kAdvanceRank))]
             ELSE IF Direct(c)
                  THEN IF c.kAdvanceRank = 1
                       THEN [i EXCEPT !.pointer_ =
                               @ + p.inc_advance_ * tile_offset.strided
                                 + c.Shape.contiguous * tile_offset.contiguous]
                       ELSE [i EXCEPT !.pointer_ =
                               @ + p.inc_advance_ * tile_offset.contiguous
                                 + c.Shape.strided * tile_offset.strided]
                  ELSE LET i1 == [i EXCEPT !.coord_offset_.strided =
                                    @ + c.Shape.strided * tile_offset.strided]
                       IN  IF ~c.Permute
                           THEN add_pointer_offset(c, i1,
                                  c.Shape.contiguous * tile_offset.contiguous)
                           ELSE [i1 EXCEPT !.coord_offset_.contiguous =
                                   @ + c.Shape.contiguous * tile_offset.contiguous]

\* add_tile_offset that leaves is_residue_tile_ as it was
add_tile_offset_keeps_phase(c, i, tile_offset) ==
    add_tile_offset_branches(c, i, tile_offset)

\* add_tile_offset that stays on the residue tile when the delta is zero
add_tile_offset_unless_zero(c, i, tile_offset) ==
    [add_tile_offset_branches(c, i, tile_offset) EXCEPT !.is_residue_tile_ =
        i.is_residue_tile_ /\ tile_offset = make_Coord(0, 0)]

\* add_tile_offset that also moves thread_offset_ by the tile delta
add_tile_offset_moves_thread_offset(c, i, tile_offset) ==
    [add_tile_offset_branches(c, i, tile_offset) EXCEPT
        !.is_residue_tile_ = FALSE,
        !.thread_offset_ =
            CoordAdd(@, make_Coord(tile_offset.contiguous * c.Shape.contiguous,
                                   tile_offset.strided * c.Shape.strided))]

\* add_tile_offset that consumes residue_offset_ on the first call
add_tile_offset_consumes_residue(c, i, tile_offset) ==
    [add_tile_offset_branches(c, i, tile_offset) EXCEPT
        !.is_residue_tile_ = FALSE,
        !.residue_offset_ = make_Coord(0, 0)]

\* add_tile_offset that leaves the residue tile by a whole tile
add_tile_offset_whole_tile_step(c, i, tile_offset) ==
    [add_tile_offset_branches(c, i, tile_offset) EXCEPT
        !.is_residue_tile_ = FALSE,
        !.thread_offset_ =
            IF i.is_residue_tile_
            THEN CoordAdd(i.thread_offset_,
                          IF c.kAdvanceRank = 1
                          THEN make_Coord(0, c.Shape.strided)
                          ELSE make_Coord(c.Shape.contiguous, 0))
            ELSE @]

add_tile_offset(c, i, tile_offset) ==
    [add_tile_offset_branches(c, i, tile_offset) EXCEPT !.is_residue_tile_ = FALSE]

\* get() that resolves the address whatever the predicate says
get_unchecked(c, i) ==
    IF c.Gather \/ c.Permute
    THEN LET coord_contig ==
                 (IF c.Permute THEN i.coord_offset_.contiguous ELSE 0)
                 + i.iteration_contiguous_ * c.Delta.contiguous
                 + i.iteration_vector_ * c.AccessElements
             strided0 == i.coord_offset_.strided
                         + i.iteration_strided_ * c.Delta.strided
             coord_strided == IF c.Gather THEN Indices(strided0) ELSE strided0
             offset == IF c.Permute
                       THEN permute_layout_(c, make_Coord(coord_contig, coord_strided))
                       ELSE coord_strided * Params(c).stride_ + coord_contig
         IN  [null |-> FALSE, addr |-> i.pointer_ + OffsetBytes(c, offset)]
    ELSE [null |-> FALSE,
          addr |-> i.pointer_
                   + CDiv(i.iteration_contiguous_ * (c.Delta.contiguous * c.bits), 8)
                   + i.iteration_vector_ * CDiv(c.AccessElements * c.bits, 8)]

\* get(): [null |-> TRUE] is the null pointer, addr a byte offset from the base
get(c, i) ==
    IF c.Gather \/ c.Permute
    THEN IF ~valid(c, i)
         THEN [null |-> TRUE, addr |-> 0]
         ELSE LET coord_contig ==
                      (IF c.Permute THEN i.coord_offset_.contiguous ELSE 0)
                      + i.iteration_contiguous_ * c.Delta.contiguous
                      + i.iteration_vector_ * c.AccessElements
                  strided0 == i.coord_offset_.strided
                              + i.iteration_strided_ * c.Delta.strided
                  coord_strided == IF c.Gather THEN Indices(strided0) ELSE strided0
                  offset == IF c.Permute
                            THEN permute_layout_(c, make_Coord(coord_contig, coord_strided))
                            ELSE coord_strided * Params(c).stride_ + coord_contig
              IN  [null |-> FALSE, addr |-> i.pointer_ + OffsetBytes(c, offset)]
    ELSE [null |-> FALSE,
          addr |-> i.pointer_
                   + CDiv(i.iteration_contiguous_ * (c.Delta.contiguous * c.bits), 8)
                   + i.iteration_vector_ * CDiv(c.AccessElements * c.bits, 8)]

\* operator++ that does not return to the start tile on the wrap
operator_increment_no_return(c, i) ==
    LET p == Params(c)
    IN  IF i.iteration_vector_ + 1 < kAccessesPerVector(c)
        THEN [i EXCEPT !.iteration_vector_ = @ + 1]
        ELSE IF i.iteration_contiguous_ + 1 < c.Iterations.contiguous
        THEN [i EXCEPT !.iteration_vector_ = 0,
                       !.iteration_contiguous_ = @ + 1]
        ELSE IF i.iteration_strided_ + 1 < c.Iterations.strided
        THEN [i EXCEPT !.iteration_vector_ = 0,
                       !.iteration_contiguous_ = 0,
                       !.iteration_strided_ = @ + 1,
                       !.pointer_ = IF Direct(c) THEN @ + p.inc_strided_ ELSE @]
        ELSE [i EXCEPT !.iteration_vector_ = 0,
                       !.iteration_contiguous_ = 0,
                       !.iteration_strided_ = 0,
                       !.pointer_ = IF Direct(c) THEN @ + p.inc_next_ ELSE @]

\* operator++ that keeps counting strided iterations past the last one
operator_increment_no_wrap(c, i) ==
    LET p == Params(c)
    IN  IF i.iteration_vector_ + 1 < kAccessesPerVector(c)
        THEN [i EXCEPT !.iteration_vector_ = @ + 1]
        ELSE IF i.iteration_contiguous_ + 1 < c.Iterations.contiguous
        THEN [i EXCEPT !.iteration_vector_ = 0,
                       !.iteration_contiguous_ = @ + 1]
        ELSE [i EXCEPT !.iteration_vector_ = 0,
                       !.iteration_contiguous_ = 0,
                       !.iteration_strided_ = @ + 1,
                       !.pointer_ = IF Direct(c) THEN @ + p.inc_strided_ ELSE @]

\* operator++
operator_increment(c, i) ==
    LET p == Params(c)
    IN  IF i.iteration_vector_ + 1 < kAccessesPerVector(c)
        THEN [i EXCEPT !.iteration_vector_ = @ + 1]
        ELSE IF i.iteration_contiguous_ + 1 < c.Iterations.contiguous
        THEN [i EXCEPT !.iteration_vector_ = 0,
                       !.iteration_contiguous_ = @ + 1]
        ELSE IF i.iteration_strided_ + 1 < c.Iterations.strided
        THEN [i EXCEPT !.iteration_vector_ = 0,
                       !.iteration_contiguous_ = 0,
                       !.iteration_strided_ = @ + 1,
                       !.pointer_ = IF Direct(c) THEN @ + p.inc_strided_ ELSE @]
        ELSE [i EXCEPT !.iteration_vector_ = 0,
                       !.iteration_contiguous_ = 0,
                       !.iteration_strided_ = 0,
                       !.pointer_ = IF Direct(c)
                                    THEN @ + p.inc_next_ - p.inc_advance_
                                    ELSE @]

----------------------------------------------------------------------------
(* Instantiations and constructor arguments explored                       *)

\* Thread maps: one thread covering a 4x2 tile with 2-element vectors, and
\* four threads covering a 2x4 tile one element at a time (its last thread).
ThreadMaps ==
    { [Shape |-> make_Coord(4, 2), Iterations |-> make_Coord(2, 2),
       Delta |-> make_Coord(2, 1), kElementsPerAccess |-> 2, Threads |-> {0}],
      [Shape |-> make_Coord(2, 4), Iterations |-> make_Coord(1, 2),
       Delta |-> make_Coord(1, 2), kElementsPerAccess |-> 1, Threads |-> {3}] }

\* tensor extents, as <<advance axis, other axis>>
Extents == { <<0, 4>>, <<3, 1>>, <<3, 4>>, <<4, 1>>, <<4, 4>>, <<6, 4>> }

\* coordinate with a along the advance axis and o along the other axis
AxisCoord(rank, a, o) == IF rank = 1 THEN make_Coord(o, a) ELSE make_Coord(a, o)

Adv(rank, coord) == IF rank = 1 THEN coord.strided ELSE coord.contiguous

Oth(rank, coord) == IF rank = 1 THEN coord.contiguous ELSE coord.strided

Instantiations ==
    UNION { { [kAdvanceRank |-> r, Shape |-> tm.Shape, Iterations |-> tm.Iterations,
               Delta |-> tm.Delta, kElementsPerAccess |-> tm.kElementsPerAccess,
               AccessElements |-> ae, thread_id |-> t] :
                r \in {0, 1}, t \in tm.Threads,
                ae \in { e \in {1, 2} : tm.kElementsPerAccess % e = 0 } } :
            tm \in ThreadMaps }

\* Constructor arguments.  Every geometry is explored with one-byte elements
\* and stride 8 on the direct path; AddressingVariants (element bits, stride,
\* Gather, Permute) are explored on the geometry AddressingExtent.
\* threadblock offsets along the advance axis (0 along the other axis)
ThreadblockOffsets == {0, 2}

AddressingVariants ==
    { <<8, 8, FALSE, FALSE>>, <<16, 8, FALSE, FALSE>>, <<8, 9, FALSE, FALSE>>,
      <<8, 8, TRUE, FALSE>>, <<8, 8, FALSE, TRUE>> }

AddressingExtent == <<6, 4>>

Configs ==
    { [kAdvanceRank |-> x.kAdvanceRank, Shape |-> x.Shape,
       Iterations |-> x.Iterations, Delta |-> x.Delta,
       kElementsPerAccess |-> x.kElementsPerAccess,
       AccessElements |-> x.AccessElements, thread_id |-> x.thread_id,
       bits |-> m[1], stride |-> m[2], Gather |-> m[3], Permute |-> m[4],
       extent |-> AxisCoord(x.kAdvanceRank, e[1], e[2]),
       threadblock_offset |-> AxisCoord(x.kAdvanceRank, ta, 0)] :
        x \in Instantiations, m \in AddressingVariants,
        e \in Extents,
        ta \in ThreadblockOffsets }

ExploredConfigs ==
    { c \in Configs :
        \/ c.bits = 8 /\ c.stride = 8 /\ Direct(c)
        \/ /\ <<Adv(c.kAdvanceRank, c.extent), Oth(c.kAdvanceRank, c.extent)>>
                = AddressingExtent
           /\ c.threadblock_offset = make_Coord(0, 0) }

\* tile deltas passed to add_tile_offset, as <<advance axis, other axis>>
TileDeltas == { <<1, 0>>, <<2, 0>>, <<0, 0>>, <<-1, 1>> }

\* indices passed to set_iteration_index: the first and the last access
IndexInputs(c) == {0, kPredicateCount(c) - 1}

\* pointer offsets passed to add_pointer_offset, in elements
PointerOffsets == { 3 }

\* masks passed to set_mask: bit 0 and bit 5 of every word (bit 5 belongs to
\* no access)
MaskInputs(c) == { [w \in Words(c) |-> {0, 5}] }

----------------------------------------------------------------------------
(* History of the calls                                                    *)

\* logical displacement add_tile_offset(tile_offset) asks for: whole tiles,
\* the first step from the residue tile being the residue offset
TileDisplacement(c, i, tile_offset) ==
    IF i.is_residue_tile_
    THEN AxisCoord(c.kAdvanceRank,
           Adv(c.kAdvanceRank, i.residue_offset_)
             + (Adv(c.kAdvanceRank, tile_offset) - 1) * Adv(c.kAdvanceRank, c.Shape),
           Oth(c.kAdvanceRank, tile_offset) * Oth(c.kAdvanceRank, c.Shape))
    ELSE make_Coord(tile_offset.contiguous * c.Shape.contiguous,
                    tile_offset.strided * c.Shape.strided)

----------------------------------------------------------------------------
(* The state machine                                                       *)

Init ==
    /\ cfg \in ExploredConfigs
    /\ it = Construct(cfg)
    /\ logical = Construct(cfg).thread_offset_
    /\ calls = [tile |-> 0, aux |-> 0]
    /\ monotone = TRUE
    /\ mask_state = "computed"

Advance ==
    /\ it' = operator_increment(cfg, it)
    /\ UNCHANGED <<cfg, logical, calls, monotone, mask_state>>

SetIterationIndex(index) ==
    /\ calls.aux < MaxAuxCalls
    /\ it' = set_iteration_index(cfg, it, index)
    /\ calls' = [calls EXCEPT !.aux = @ + 1]
    /\ UNCHANGED <<cfg, logical, monotone, mask_state>>

AddPointerOffset(pointer_offset) ==
    /\ calls.aux < MaxAuxCalls
    /\ it' = add_pointer_offset(cfg, it, pointer_offset)
    /\ calls' = [calls EXCEPT !.aux = @ + 1]
    /\ monotone' = FALSE
    /\ UNCHANGED <<cfg, logical, mask_state>>

AddTileOffset(tile_offset) ==
    /\ calls.tile < MaxTileAdvances
    /\ it' = add_tile_offset(cfg, it, tile_offset)
    /\ logical' = CoordAdd(logical, TileDisplacement(cfg, it, tile_offset))
    /\ calls' = [calls EXCEPT !.tile = @ + 1]
    /\ monotone' = (monotone /\ Adv(cfg.kAdvanceRank, tile_offset) > 0
                             /\ Oth(cfg.kAdvanceRank, tile_offset) = 0)
    /\ mask_state' = IF it.is_residue_tile_ THEN "computed" ELSE mask_state
    /\ UNCHANGED cfg

ClearMask(enable) ==
    /\ it' = clear_mask(cfg, it, enable)
    /\ mask_state' = IF enable THEN "cleared" ELSE mask_state
    /\ UNCHANGED <<cfg, logical, calls, monotone>>

EnableMask ==
    /\ it' = enable_mask(cfg, it)
    /\ mask_state' = "overridden"
    /\ UNCHANGED <<cfg, logical, calls, monotone>>

SetMask(mask) ==
    /\ it' = set_mask(cfg, it, mask)
    /\ mask_state' = "overridden"
    /\ UNCHANGED <<cfg, logical, calls, monotone>>

Next ==
    \/ Advance
    \/ \E index \in IndexInputs(cfg) : SetIterationIndex(index)
    \/ \E pointer_offset \in PointerOffsets : AddPointerOffset(pointer_offset)
    \/ \E d \in TileDeltas : AddTileOffset(AxisCoord(cfg.kAdvanceRank, d[1], d[2]))
    \/ \E enable \in BOOLEAN : ClearMask(enable)
    \/ EnableMask
    \/ \E mask \in MaskInputs(cfg) : SetMask(mask)

Spec == Init /\ [][Next]_vars

----------------------------------------------------------------------------
(* Vocabulary of the properties                                            *)

Cursor(i) ==
    [v |-> i.iteration_vector_, c |-> i.iteration_contiguous_,
     s |-> i.iteration_strided_]

Triples(c) == { AccessTriple(c, a) : a \in 0 .. (kPredicateCount(c) - 1) }

\* the bit compute_predicates_ keeps for triple t, read from the mask held
BitOf(c, i, t) == PredBit(PredIdx(c, t)) \in i.predicates_[PredWord(PredIdx(c, t))]

\* logical coordinate of the access at the cursor, in the tile addressed
AccessCoord == CoordAdd(logical, IterationCoord(cfg, Cursor(it)))

InExtent(coord) ==
    /\ 0 <= coord.contiguous /\ coord.contiguous < cfg.extent.contiguous
    /\ 0 <= coord.strided /\ coord.strided < cfg.extent.strided

AdvTile == Adv(cfg.kAdvanceRank, cfg.Shape)

AdvExtent == Adv(cfg.kAdvanceRank, cfg.extent)

AdvOffset == Adv(cfg.kAdvanceRank, cfg.threadblock_offset)

AdvResidue == Adv(cfg.kAdvanceRank, it.residue_offset_)

\* where the tile addressed starts along the advance axis
TileStart ==
    Adv(cfg.kAdvanceRank, logical)
      - Adv(cfg.kAdvanceRank, initial_offset(cfg, cfg.thread_id))

\* the tile addressed is the residue tile or a later tile that overlaps the
\* extent: the traversal has not gone past the last tile
WithinTraversal == calls.tile = 0 \/ TileStart < AdvExtent

\* every add_tile_offset so far was one tile forward along the advance axis,
\* every other call an operator++
UnitTraversal ==
    /\ monotone
    /\ calls.aux = 0
    /\ mask_state = "computed"
    /\ calls.tile > 0 => TileStart = AdvOffset + AdvResidue + (calls.tile - 1) * AdvTile

OffsetWithinExtent ==
    /\ cfg.threadblock_offset.contiguous <= cfg.extent.contiguous
    /\ cfg.threadblock_offset.strided <= cfg.extent.strided

AccessesInsideTile ==
    \A t \in Triples(cfg) :
        LET x == CoordAdd(initial_offset(cfg, cfg.thread_id), IterationCoord(cfg, t))
        IN  x.contiguous < cfg.Shape.contiguous /\ x.strided < cfg.Shape.strided

----------------------------------------------------------------------------
(* C1  Bounds fidelity (P1), as stated: at every access visited on a full  *)
(* traversal (the residue tile, then the following tiles one            *)
(* add_tile_offset(+1) at a time, operator++ within each tile), valid() is *)
(* true if and only if the logical coordinate of the access lies inside    *)
(* the tensor extent.                                                      *)
C1_ValidIffInExtent ==
    (UnitTraversal /\ WithinTraversal) => (valid(cfg, it) <=> InExtent(AccessCoord))

(* C1 as amended: on the residue tile valid() is true iff the coordinate   *)
(* is inside the extent and, along the advance axis, below threadblock     *)
(* offset + residue offset; on every following tile of the traversal       *)
(* valid() is true iff the coordinate is inside the extent.                *)
C1_ValidIffInWindow ==
    (UnitTraversal /\ WithinTraversal) =>
        (valid(cfg, it) <=>
            /\ InExtent(AccessCoord)
            /\ it.is_residue_tile_ =>
                 Adv(cfg.kAdvanceRank, AccessCoord) < AdvOffset + AdvResidue)

C1_Witness ==
    /\ UnitTraversal /\ WithinTraversal
    /\ calls.tile = 2
    /\ Cursor(it) # [v |-> 0, c |-> 0, s |-> 0]
    /\ valid(cfg, it)
    /\ AdvExtent - AdvOffset > AdvTile

(* C2  On a monotone traversal (threadblock offset within the extent, the  *)
(* thread map's accesses inside the tile, only forward steps along the     *)
(* advance axis, not past the last tile overlapping the extent, the        *)
(* predicates not overridden by enable_mask or set_mask) every access for  *)
(* which valid() is true has its logical coordinate inside the extent.     *)
C2_ValidImpliesInExtent ==
    ( /\ OffsetWithinExtent
      /\ AccessesInsideTile
      /\ monotone
      /\ WithinTraversal
      /\ mask_state # "overridden"
      /\ valid(cfg, it) ) => InExtent(AccessCoord)

C2_Witness ==
    /\ OffsetWithinExtent /\ AccessesInsideTile /\ monotone /\ WithinTraversal
    /\ mask_state = "computed"
    /\ ~it.is_residue_tile_
    /\ TileStart > AdvOffset + AdvResidue
    /\ Adv(cfg.kAdvanceRank, AccessCoord) = AdvExtent - 1
    /\ valid(cfg, it)

(* C3  Phase-once recomputation (P2): the predicates are computed once by  *)
(* the constructor and once more by the first add_tile_offset; after any   *)
(* number of tile advances (three or more included) the count is 2.        *)
C3_RecomputedTwice ==
    /\ calls.tile = 0 => it.computed = 1
    /\ calls.tile >= 1 => it.computed = 2

C3_Witness == calls.tile >= 3 /\ it.computed = 2

(* C4  The first time operator++ wraps out of the strided axis (it steps   *)
(* past the last access of the tile while is_residue_tile_ is set) it      *)
(* recomputes the predicates in steady-state mode against the original     *)
(* extent and clears is_residue_tile_ (stated here: the recomputation and  *)
(* the flag).                                                              *)
AtLastAccess(c, i) ==
    /\ i.iteration_vector_ = kAccessesPerVector(c) - 1
    /\ i.iteration_contiguous_ = c.Iterations.contiguous - 1
    /\ i.iteration_strided_ = c.Iterations.strided - 1

C4_FirstWrapEntersSteadyState ==
    [][(Advance /\ AtLastAccess(cfg, it) /\ it.is_residue_tile_) =>
         /\ ~it'.is_residue_tile_
         /\ it'.computed = it.computed + 1
         /\ it'.predicates_ = compute_predicates_(cfg,
                                [it EXCEPT !.thread_offset_ =
                                             CoordAdd(@, it.residue_offset_)],
                                it.extent_, TRUE).predicates_]_vars

(* C5  Mask override persistence (P5), as stated: once clear_mask(true)    *)
(* has been called valid() is false at every cursor position, and stays so *)
(* through operator++, set_iteration_index, add_pointer_offset and         *)
(* add_tile_offset, until enable_mask() or set_mask() is called.           *)
AllInvalid(c, i) ==
    \A index \in 0 .. (kPredicateCount(c) - 1) :
        ~valid(c, set_iteration_index(c, i, index))

C5_ClearedUntilEnableOrSet ==
    [][(mask_state = "cleared" /\ mask_state' # "overridden") =>
         AllInvalid(cfg, it')]_vars

(* C5 as amended: after clear_mask(true) valid() is false at every cursor  *)
(* position until enable_mask(), set_mask() or the predicate recomputation *)
(* of the first add_tile_offset (the one made on the residue tile).        *)
C5_ClearedUntilOverwritten == mask_state = "cleared" => AllInvalid(cfg, it)

C5_Witness ==
    /\ mask_state = "cleared"
    /\ calls.tile >= 2
    /\ calls.aux >= 1
    /\ Cursor(it) # [v |-> 0, c |-> 0, s |-> 0]
    /\ \E t \in Triples(cfg) :
         BitOf(cfg, compute_predicates_(cfg, it, it.extent_, TRUE), t)

(* C6  Pointer/coordinate agreement on the fast path (P3): on the direct   *)
(* path, after construction and any number of operator++ calls, get()      *)
(* returns the base pointer plus the byte offset the pitch-linear layout   *)
(* gives to thread_offset + (c*Delta::kContiguous + v*AccessType::kElements,*)
(* s*Delta::kStrided), (v, c, s) being the cursor.                         *)
C6_GetAddressesCursorCoordinate ==
    (Direct(cfg) /\ calls.tile = 0 /\ calls.aux = 0) =>
        /\ ~get(cfg, it).null
        /\ get(cfg, it).addr =
             OffsetBytes(cfg,
               Layout(cfg.stride,
                      CoordAdd(it.thread_offset_, IterationCoord(cfg, Cursor(it)))))

C6_Witness ==
    /\ Direct(cfg) /\ calls.tile = 0 /\ calls.aux = 0
    /\ cfg.bits = 16
    /\ Cursor(it) = [v |-> 1, c |-> 1, s |-> 1]
    /\ get(cfg, it).addr > 0

(* C7  add_tile_offset moves the iterator by whole tiles in logical        *)
(* coordinates: on the direct path, for every tile delta d, in the residue *)
(* phase and in steady state, for both advance ranks, every element width  *)
(* and stride, the pointer changes by the byte offset of the logical       *)
(* displacement (d.contiguous*Shape::kContiguous elements, d.strided*      *)
(* Shape::kStrided rows), the first advance-axis step from the residue     *)
(* tile being the residue offset.                                          *)
ClaimDeltas == { make_Coord(x, y) : x \in -1 .. 2, y \in -1 .. 2 }

C7_TileOffsetMovesWholeTiles ==
    Direct(cfg) =>
        \A d \in ClaimDeltas :
            add_tile_offset(cfg, it, d).pointer_ - it.pointer_ =
                OffsetBytes(cfg, Layout(cfg.stride, TileDisplacement(cfg, it, d)))

(* C8  add_tile_offset composes: add_tile_offset(a) followed by            *)
(* add_tile_offset(b) leaves the iterator in the state add_tile_offset(a+b)*)
(* leaves it in, from the residue tile and from steady state.              *)
C8_TileOffsetComposes ==
    \A a \in ClaimDeltas, b \in ClaimDeltas :
        add_tile_offset(cfg, add_tile_offset(cfg, it, a), b) =
            add_tile_offset(cfg, it, CoordAdd(a, b))

(* C9  Residue correctness, non-divisible case (P4), as stated: when the   *)
(* extent minus the threadblock offset along the advance axis is not a     *)
(* multiple of the tile size, the mask computed at construction keeps      *)
(* exactly the first ((extent - offset) mod tile size) positions of the    *)
(* tile along that axis (an access is valid iff its position in the tile   *)
(* is one of them and its other coordinate is inside the extent), and the  *)
(* mask of every following tile is valid all along that axis.              *)
ConstructionMask == calls.tile = 0 /\ mask_state = "computed"

SteadyMask == calls.tile > 0 /\ mask_state = "computed"

OtherInExtent(t) ==
    Oth(cfg.kAdvanceRank, CoordAdd(it.thread_offset_, IterationCoord(cfg, t)))
        < Oth(cfg.kAdvanceRank, cfg.extent)

\* position of triple t in the residue tile along the advance axis
PositionInTile(t) ==
    Adv(cfg.kAdvanceRank, CoordAdd(it.thread_offset_, IterationCoord(cfg, t)))
        - AdvOffset

ResidueMaskKeepsFirst(n) ==
    \A t \in Triples(cfg) :
        BitOf(cfg, it, t) <=> (PositionInTile(t) < n /\ OtherInExtent(t))

MaskValidAlongAdvanceAxis ==
    \A t \in Triples(cfg) : BitOf(cfg, it, t) <=> OtherInExtent(t)

C9_ResidueKeepsRemainder ==
    ((AdvExtent - AdvOffset) % AdvTile # 0) =>
        /\ ConstructionMask => ResidueMaskKeepsFirst((AdvExtent - AdvOffset) % AdvTile)
        /\ SteadyMask => MaskValidAlongAdvanceAxis

(* C9 as amended: the same, for a threadblock offset that does not exceed  *)
(* the extent along the advance axis.                                      *)
C9_ResidueKeepsRemainderWithinExtent ==
    (AdvOffset <= AdvExtent /\ (AdvExtent - AdvOffset) % AdvTile # 0) =>
        /\ ConstructionMask => ResidueMaskKeepsFirst((AdvExtent - AdvOffset) % AdvTile)
        /\ SteadyMask => MaskValidAlongAdvanceAxis

C9_Witness ==
    /\ ConstructionMask
    /\ AdvTile = 4 /\ AdvExtent - AdvOffset = 6
    /\ \E t \in Triples(cfg) : PositionInTile(t) = 1 /\ BitOf(cfg, it, t)
    /\ \E t \in Triples(cfg) :
         PositionInTile(t) = 2 /\ OtherInExtent(t) /\ ~BitOf(cfg, it, t)

(* C10  Residue correctness, divisible case (P4), as stated: when the      *)
(* extent along the advance axis is an exact multiple of the tile size the *)
(* residue offset is one full tile and the mask computed at construction   *)
(* is valid all along the advance axis.                                    *)
C10_DivisibleExtentIsFullTile ==
    (AdvExtent % AdvTile = 0) =>
        /\ AdvResidue = AdvTile
        /\ ConstructionMask => MaskValidAlongAdvanceAxis

(* C10 as amended: when the extent minus the threadblock offset along the  *)
(* advance axis is a positive exact multiple of the tile size, the residue *)
(* offset is one full tile and the mask computed at construction is valid  *)
(* all along the advance axis.                                             *)
C10_DivisibleRemainderIsFullTile ==
    (AdvExtent - AdvOffset > 0 /\ (AdvExtent - AdvOffset) % AdvTile = 0) =>
        /\ AdvResidue = AdvTile
        /\ ConstructionMask => MaskValidAlongAdvanceAxis

C10_Witness ==
    /\ ConstructionMask
    /\ AdvExtent - AdvOffset = AdvTile
    /\ AdvOffset > 0
    /\ AdvResidue = AdvTile
    /\ \A t \in Triples(cfg) : BitOf(cfg, it, t)
    /\ Cardinality(Triples(cfg)) > 1

----------------------------------------------------------------------------
(* PredicatedTileAccessIterator<AffineRankN<2>>                            *)
(* The configuration record of this variant holds stride0 and stride1 (the *)
(* two strides of the affine layout) where the pitch-linear one holds      *)
(* stride; it has no gather or permute addressing and no coord_offset_.    *)

\* layout::AffineRankN<2>::operator(): element offset of a coordinate
affine_Layout(c, coord) == coord.contiguous * c.stride0 + coord.strided * c.stride1

\* Params whose inc_next_ leaves out the contiguous accesses of the last row
affine_Params_next_from_row_start(c) ==
    LET inc_contiguous == CDiv((c.stride0 * c.Delta.contiguous) * c.bits, 8)
        inc_strided    == CDiv((c.stride1 * c.Delta.strided) * c.bits, 8)
        inc_advance    == IF c.kAdvanceRank = 1
                          THEN CDiv(c.Shape.strided * c.stride1 * c.bits, 8)
                          ELSE CDiv(c.Shape.contiguous * c.stride0 * c.bits, 8)
    IN  [inc_contiguous_   |-> inc_contiguous,
         inc_strided_      |-> inc_strided,
         inc_next_strided_ |-> inc_strided
                               - (c.Iterations.contiguous - 1) * inc_contiguous,
         inc_advance_      |-> inc_advance,
         inc_next_         |-> inc_advance
                               - (c.Iterations.strided - 1) * inc_strided]

\* Params of the affine rank-2 iterator
affine_Params(c) ==
    LET inc_contiguous == CDiv((c.stride0 * c.Delta.contiguous) * c.bits, 8)
        inc_strided    == CDiv((c.stride1 * c.Delta.strided) * c.bits, 8)
        inc_advance    == IF c.kAdvanceRank = 1
                          THEN CDiv(c.Shape.strided * c.stride1 * c.bits, 8)
                          ELSE CDiv(c.Shape.contiguous * c.stride0 * c.bits, 8)
    IN  [inc_contiguous_   |-> inc_contiguous,
         inc_strided_      |-> inc_strided,
         inc_next_strided_ |-> inc_strided
                               - (c.Iterations.contiguous - 1) * inc_contiguous,
         inc_advance_      |-> inc_advance,
         inc_next_         |-> inc_advance
                               - (c.Iterations.contiguous - 1) * inc_contiguous
                               - (c.Iterations.strided - 1) * inc_strided]

affine_Construct(c) ==
    LET i0 == [predicates_           |-> ZeroMask(c),
               extent_               |-> c.extent,
               thread_offset_        |-> make_Coord(0, 0),
               residue_offset_       |-> make_Coord(0, 0),
               iteration_vector_     |-> 0,
               iteration_contiguous_ |-> 0,
               iteration_strided_    |-> 0,
               pointer_              |-> 0,
               is_residue_tile_      |-> TRUE,
               computed              |-> 0]
        i1 == set_predicates(c, i0, c.thread_id, c.threadblock_offset)
    IN  add_pointer_offset(c, i1, affine_Layout(c, i1.thread_offset_))

\* the tile steps of add_tile_offset, which both branches end with
affine_tile_steps(c, i, advance_steps, tile_offset) ==
    LET p == affine_Params(c)
    IN  IF c.kAdvanceRank = 1
        THEN [i EXCEPT !.pointer_ = @ + p.inc_advance_ * advance_steps
                                      + c.Shape.contiguous * tile_offset.contiguous]
        ELSE [i EXCEPT !.pointer_ = @ + p.inc_advance_ * advance_steps
                                      + c.Shape.strided * tile_offset.strided]

\* the statements add_tile_offset executes on the residue tile, in the order
\* recomputation first, then residue pointer correction
affine_residue_tile_statements_recompute_first(c, i, tile_offset) ==
    LET i1 == [i EXCEPT !.thread_offset_ = CoordAdd(@, i.residue_offset_)]
        i2 == compute_predicates_(c, i1, i1.extent_, TRUE)
        i3 == add_pointer_offset(c, i2, affine_Layout(c, i2.residue_offset_))
        i4 == affine_tile_steps(c, i3,
                Adv(c.kAdvanceRank, tile_offset) - 1, tile_offset)
    IN  << [stmt |-> "thread_offset_ += residue_offset_", after |-> i1],
           [stmt |-> "compute_predicates_", after |-> i2],
           [stmt |-> "add_pointer_offset(residue_offset_)", after |-> i3],
           [stmt |-> "pointer_ += tile steps", after |-> i4] >>

\* the statements add_tile_offset executes on the residue tile, in source
\* order, each with the iterator state it leaves
affine_residue_tile_statements(c, i, tile_offset) ==
    LET i1 == [i EXCEPT !.thread_offset_ = CoordAdd(@, i.residue_offset_)]
        i2 == add_pointer_offset(c, i1, affine_Layout(c, i1.residue_offset_))
        i3 == compute_predicates_(c, i2, i2.extent_, TRUE)
        i4 == affine_tile_steps(c, i3,
                Adv(c.kAdvanceRank, tile_offset) - 1, tile_offset)
    IN  << [stmt |-> "thread_offset_ += residue_offset_", after |-> i1],
           [stmt |-> "add_pointer_offset(residue_offset_)", after |-> i2],
           [stmt |-> "compute_predicates_", after |-> i3],
           [stmt |-> "pointer_ += tile steps", after |-> i4] >>

\* add_tile_offset that recomputes the predicates on every call
affine_add_tile_offset_recomputes(c, i, tile_offset) ==
    LET statements == affine_residue_tile_statements(c, i, tile_offset)
        done == IF i.is_residue_tile_
                THEN statements[Len(statements)].after
                ELSE compute_predicates_(c,
                       affine_tile_steps(c, i,
                         Adv(c.kAdvanceRank, tile_offset), tile_offset),
                       i.extent_, TRUE)
    IN  [done EXCEPT !.is_residue_tile_ = FALSE]

affine_add_tile_offset(c, i, tile_offset) ==
    LET statements == affine_residue_tile_statements(c, i, tile_offset)
        done == IF i.is_residue_tile_
                THEN statements[Len(statements)].after
                ELSE affine_tile_steps(c, i,
                       Adv(c.kAdvanceRank, tile_offset), tile_offset)
    IN  [done EXCEPT !.is_residue_tile_ = FALSE]

affine_get(c, i) ==
    [null |-> FALSE,
     addr |-> i.pointer_ + i.iteration_vector_ * CDiv(c.AccessElements * c.bits, 8)]

\* operator++ stepping the contiguous iteration before the vector
affine_operator_increment_contiguous_first(c, i) ==
    LET p == affine_Params(c)
    IN  IF i.iteration_contiguous_ + 1 < c.Iterations.contiguous
        THEN [i EXCEPT !.iteration_contiguous_ = @ + 1,
                       !.pointer_ = @ + p.inc_contiguous_]
        ELSE IF i.iteration_vector_ + 1 < kAccessesPerVector(c)
        THEN [i EXCEPT !.iteration_contiguous_ = 0,
                       !.iteration_vector_ = @ + 1]
        ELSE IF i.iteration_strided_ + 1 < c.Iterations.strided
        THEN [i EXCEPT !.iteration_vector_ = 0,
                       !.iteration_contiguous_ = 0,
                       !.iteration_strided_ = @ + 1,
                       !.pointer_ = @ + p.inc_next_strided_]
        ELSE [i EXCEPT !.iteration_vector_ = 0,
                       !.iteration_contiguous_ = 0,
                       !.iteration_strided_ = 0,
                       !.pointer_ = @ + p.inc_next_ - p.inc_advance_]

\* operator++ that stays on the next tile after the wrap
affine_operator_increment_stays_on_next_tile(c, i) ==
    LET p == affine_Params(c)
    IN  IF i.iteration_vector_ + 1 < kAccessesPerVector(c)
        THEN [i EXCEPT !.iteration_vector_ = @ + 1]
        ELSE IF i.iteration_contiguous_ + 1 < c.Iterations.contiguous
        THEN [i EXCEPT !.iteration_vector_ = 0,
                       !.iteration_contiguous_ = @ + 1,
                       !.pointer_ = @ + p.inc_contiguous_]
        ELSE IF i.iteration_strided_ + 1 < c.Iterations.strided
        THEN [i EXCEPT !.iteration_vector_ = 0,
                       !.iteration_contiguous_ = 0,
                       !.iteration_strided_ = @ + 1,
                       !.pointer_ = @ + p.inc_next_strided_]
        ELSE [i EXCEPT !.iteration_vector_ = 0,
                       !.iteration_contiguous_ = 0,
                       !.iteration_strided_ = 0,
                       !.pointer_ = @ + p.inc_next_]

\* operator++ (the_predicates.operator++ it calls first changes nothing)
affine_operator_increment(c, i) ==
    LET p == affine_Params(c)
    IN  IF i.iteration_vector_ + 1 < kAccessesPerVector(c)
        THEN [i EXCEPT !.iteration_vector_ = @ + 1]
        ELSE IF i.iteration_contiguous_ + 1 < c.Iterations.contiguous
        THEN [i EXCEPT !.iteration_vector_ = 0,
                       !.iteration_contiguous_ = @ + 1,
                       !.pointer_ = @ + p.inc_contiguous_]
        ELSE IF i.iteration_strided_ + 1 < c.Iterations.strided
        THEN [i EXCEPT !.iteration_vector_ = 0,
                       !.iteration_contiguous_ = 0,
                       !.iteration_strided_ = @ + 1,
                       !.pointer_ = @ + p.inc_next_strided_]
        ELSE [i EXCEPT !.iteration_vector_ = 0,
                       !.iteration_contiguous_ = 0,
                       !.iteration_strided_ = 0,
                       !.pointer_ = @ + p.inc_next_ - p.inc_advance_]

----------------------------------------------------------------------------
(* Statement order of the pitch-linear add_tile_offset on the residue tile *)

\* the statements add_tile_offset executes on the residue tile, in source
\* order, each with the iterator state it leaves
residue_tile_statements(c, i, tile_offset) ==
    LET p  == Params(c)
        i1 == [i EXCEPT !.thread_offset_ = CoordAdd(@, i.residue_offset_)]
        i2 == compute_predicates_(c, i1, i1.extent_, TRUE)
        head == << [stmt |-> "thread_offset_ += residue_offset_", after |-> i1],
                   [stmt |-> "compute_predicates_", after |-> i2] >>
    IN  IF Direct(c)
        THEN LET i3 == add_pointer_offset(c, i2, Layout(p.stride_, i2.residue_offset_))
                 i4 == IF c.kAdvanceRank = 1
                       THEN [i3 EXCEPT !.pointer_ =
                               @ + p.inc_advance_ * (tile_offset.strided - 1)
                                 + CDiv(c.Shape.contiguous * tile_offset.contiguous
                                        * c.bits, 8)]
                       ELSE [i3 EXCEPT !.pointer_ =
                               @ + p.inc_advance_ * (tile_offset.contiguous - 1)
                                 + CDiv(c.Shape.strided * tile_offset.strided
                                        * c.bits, 8)]
             IN  head \o
                 << [stmt |-> "add_pointer_offset(residue_offset_)", after |-> i3],
                    [stmt |-> "pointer_ += tile steps", after |-> i4] >>
        ELSE LET i3 == [i2 EXCEPT !.coord_offset_.strided =
                          i2.thread_offset_.strided
                          + c.Shape.strided * (tile_offset.strided - c.kAdvanceRank)]
                 coord == << [stmt |-> "coord_offset_.strided =", after |-> i3] >>
             IN  IF ~c.Permute
                 THEN LET i4 == add_pointer_offset(c, i3,
                                  Layout(p.stride_,
                                         make_Coord(i3.residue_offset_.contiguous, 0)))
                          i5 == add_pointer_offset(c, i4,
                                  c.Shape.contiguous
                                    * (tile_offset.contiguous - (1 - c.kAdvanceRank)))
                      IN  head \o coord \o
                          << [stmt |-> "add_pointer_offset(residue_offset_)",
                              after |-> i4],
                             [stmt |-> "pointer_ += tile steps", after |-> i5] >>
                 ELSE LET i4 == [i3 EXCEPT !.coord_offset_.contiguous =
                                   i3.thread_offset_.contiguous
                                   + c.Shape.contiguous
                                     * (tile_offset.contiguous - (1 - c.kAdvanceRank))]
                      IN  head \o coord \o
                          << [stmt |-> "coord_offset_.contiguous =", after |-> i4] >>

----------------------------------------------------------------------------
(* The iterator variants that own the predicate state                      *)
(* VariantSpec runs one iterator that is either the pitch-linear or the    *)
(* affine rank-2 specialization (field Layout of cfg).  calls.inc counts   *)
(* the operator++ calls, modulo the number of accesses of a tile.          *)

\* Thread maps: one thread covering a 6x3 tile with 2-element vectors (18
\* predicates in two mask words when accessed one element at a time), and
\* the last of four threads covering a 2x4 tile.
VariantThreadMaps ==
    { [Shape |-> make_Coord(6, 3), Iterations |-> make_Coord(3, 3),
       Delta |-> make_Coord(2, 1), kElementsPerAccess |-> 2,
       AccessElements |-> 1, thread_id |-> 0],
      [Shape |-> make_Coord(2, 4), Iterations |-> make_Coord(1, 2),
       Delta |-> make_Coord(1, 2), kElementsPerAccess |-> 1,
       AccessElements |-> 1, thread_id |-> 3] }

\* tensor extents, as <<advance axis, other axis>>
VariantExtents == { <<7, 2>>, <<6, 4>> }

\* pitch-linear addressing: <<element bits, stride, Gather, Permute>>
PitchLinearAddressing ==
    { <<8, 8, FALSE, FALSE>>, <<8, 8, TRUE, FALSE>>, <<8, 8, FALSE, TRUE>>,
      <<16, 9, TRUE, FALSE>>, <<16, 9, FALSE, TRUE>> }

\* affine addressing: <<element bits, stride0, stride1>>
AffineAddressing == { <<8, 1, 8>>, <<16, 2, 9>> }

PitchLinearConfigs ==
    { [Layout |-> "PitchLinear",
       kAdvanceRank |-> r, Shape |-> tm.Shape, Iterations |-> tm.Iterations,
       Delta |-> tm.Delta, kElementsPerAccess |-> tm.kElementsPerAccess,
       AccessElements |-> tm.AccessElements, thread_id |-> tm.thread_id,
       bits |-> m[1], stride |-> m[2], Gather |-> m[3], Permute |-> m[4],
       extent |-> AxisCoord(r, e[1], e[2]),
       threadblock_offset |-> AxisCoord(r, ta, 0)] :
        r \in {0, 1}, tm \in VariantThreadMaps, m \in PitchLinearAddressing,
        e \in VariantExtents, ta \in ThreadblockOffsets }

AffineConfigs ==
    { [Layout |-> "AffineRankN<2>",
       kAdvanceRank |-> r, Shape |-> tm.Shape, Iterations |-> tm.Iterations,
       Delta |-> tm.Delta, kElementsPerAccess |-> tm.kElementsPerAccess,
       AccessElements |-> tm.AccessElements, thread_id |-> tm.thread_id,
       bits |-> m[1], stride0 |-> m[2], stride1 |-> m[3],
       extent |-> AxisCoord(r, e[1], e[2]),
       threadblock_offset |-> AxisCoord(r, ta, 0)] :
        r \in {0, 1}, tm \in VariantThreadMaps, m \in AffineAddressing,
        e \in VariantExtents, ta \in ThreadblockOffsets }

\* tile deltas passed to add_tile_offset, as <<advance axis, other axis>>
VariantTileDeltas == { <<1, 0>>, <<0, 1>>, <<-1, 0>> }

IsAffine(c) == c.Layout = "AffineRankN<2>"

\* the member functions of the specialization selected by c.Layout
ConstructOf(c) == IF IsAffine(c) THEN affine_Construct(c) ELSE Construct(c)

add_tile_offset_of(c, i, tile_offset) ==
    IF IsAffine(c)
    THEN affine_add_tile_offset(c, i, tile_offset)
    ELSE add_tile_offset(c, i, tile_offset)

operator_increment_of(c, i) ==
    IF IsAffine(c) THEN affine_operator_increment(c, i) ELSE operator_increment(c, i)

get_of(c, i) == IF IsAffine(c) THEN affine_get(c, i) ELSE get(c, i)

residue_tile_statements_of(c, i, tile_offset) ==
    IF IsAffine(c)
    THEN affine_residue_tile_statements(c, i, tile_offset)
    ELSE residue_tile_statements(c, i, tile_offset)

VariantInit ==
    /\ cfg \in PitchLinearConfigs \cup AffineConfigs
    /\ it = ConstructOf(cfg)
    /\ logical = ConstructOf(cfg).thread_offset_
    /\ calls = [tile |-> 0, aux |-> 0, inc |-> 0]
    /\ monotone = TRUE
    /\ mask_state = "computed"

VariantAdvance ==
    /\ it' = operator_increment_of(cfg, it)
    /\ calls' = [calls EXCEPT !.inc = (@ + 1) % kPredicateCount(cfg)]
    /\ UNCHANGED <<cfg, logical, monotone, mask_state>>

VariantAddTileOffset(tile_offset) ==
    /\ calls.tile < MaxTileAdvances
    /\ it' = add_tile_offset_of(cfg, it, tile_offset)
    /\ logical' = CoordAdd(logical, TileDisplacement(cfg, it, tile_offset))
    /\ calls' = [calls EXCEPT !.tile = @ + 1]
    /\ monotone' = (monotone /\ Adv(cfg.kAdvanceRank, tile_offset) > 0
                             /\ Oth(cfg.kAdvanceRank, tile_offset) = 0)
    /\ mask_state' = IF it.is_residue_tile_ THEN "computed" ELSE mask_state
    /\ UNCHANGED cfg

VariantClearMask ==
    /\ it' = clear_mask(cfg, it, TRUE)
    /\ mask_state' = "cleared"
    /\ UNCHANGED <<cfg, logical, calls, monotone>>

VariantSetMask(mask) ==
    /\ it' = set_mask(cfg, it, mask)
    /\ mask_state' = "overridden"
    /\ UNCHANGED <<cfg, logical, calls, monotone>>

VariantNext ==
    \/ VariantAdvance
    \/ \E d \in VariantTileDeltas :
         VariantAddTileOffset(AxisCoord(cfg.kAdvanceRank, d[1], d[2]))
    \/ VariantClearMask
    \/ \E mask \in MaskInputs(cfg) : VariantSetMask(mask)

VariantSpec == VariantInit /\ [][VariantNext]_vars

\* position in a statement sequence of the statement named stmt (0 if none)
StatementIndex(statements, stmt) ==
    IF \E k \in 1 .. Len(statements) : statements[k].stmt = stmt
    THEN CHOOSE k \in 1 .. Len(statements) : statements[k].stmt = stmt
    ELSE 0

Precedes(statements, first, second) ==
    /\ StatementIndex(statements, first) > 0
    /\ StatementIndex(statements, first) < StatementIndex(statements, second)

\* the residue-tile statements of the next add_tile_offset(tile_offset)
NextStatements(tile_offset) == residue_tile_statements_of(cfg, it, tile_offset)

\* the statement sequence is the add_tile_offset the actions apply
StatementsAreTheHandler(tile_offset) ==
    LET statements == NextStatements(tile_offset)
    IN  [statements[Len(statements)].after EXCEPT !.is_residue_tile_ = FALSE]
            = add_tile_offset_of(cfg, it, tile_offset)

(* C11  Ordering on the first tile-boundary crossing, as stated: in the    *)
(* pitch-linear and in the affine rank-2 iterator the steady-state         *)
(* predicate recomputation happens strictly before the residue pointer     *)
(* correction that accompanies it.                                         *)
C11_RecomputationBeforeCorrection ==
    it.is_residue_tile_ =>
        \A d \in ClaimDeltas :
            StatementIndex(NextStatements(d), "add_pointer_offset(residue_offset_)") > 0
                => Precedes(NextStatements(d), "compute_predicates_",
                            "add_pointer_offset(residue_offset_)")

(* C11 as amended: on the first add_tile_offset both iterators add the     *)
(* residue offset to thread_offset_ before they recompute the predicates   *)
(* (the recomputation reads it); the pitch-linear iterator recomputes      *)
(* before the residue pointer correction, the affine rank-2 iterator       *)
(* after it; the correction itself changes nothing but the pointer.        *)
C11_OrderPerVariant ==
    it.is_residue_tile_ =>
        \A d \in ClaimDeltas :
            LET statements == NextStatements(d)
                correction ==
                    StatementIndex(statements, "add_pointer_offset(residue_offset_)")
            IN  /\ StatementsAreTheHandler(d)
                /\ Precedes(statements, "thread_offset_ += residue_offset_",
                            "compute_predicates_")
                /\ correction > 0 =>
                     /\ IF IsAffine(cfg)
                        THEN Precedes(statements,
                                      "add_pointer_offset(residue_offset_)",
                                      "compute_predicates_")
                        ELSE Precedes(statements, "compute_predicates_",
                                      "add_pointer_offset(residue_offset_)")
                     /\ statements[correction].after
                            = [statements[correction - 1].after EXCEPT !.pointer_ =
                                 statements[correction].after.pointer_]

C11_Witness ==
    /\ IsAffine(cfg)
    /\ ~it.is_residue_tile_
    /\ it.computed = 2
    /\ it.pointer_ # ConstructOf(cfg).pointer_
    /\ it.predicates_ # ConstructOf(cfg).predicates_

\* mask values handed to set_mask: every word empty, full, or holding bits
\* that guard no access (5, 31) beside bits that do
ClaimMasks(c) == [Words(c) -> { {}, {0, 5}, {1, 31}, 0 .. (kBitsPerWord - 1) }]

(* C12  Mask round trip (P5): for every mask value m (all words, bit       *)
(* positions no access uses included) get_mask() immediately after         *)
(* set_mask(m) returns m exactly, and set_mask(get_mask()) leaves the      *)
(* iterator state unchanged.                                               *)
C12_MaskRoundTrip ==
    /\ \A m \in ClaimMasks(cfg) : get_mask(cfg, set_mask(cfg, it, m)) = m
    /\ set_mask(cfg, it, get_mask(cfg, it)) = it

C12_Witness ==
    /\ kPredicateWordCount(cfg) = 2
    /\ mask_state = "overridden"
    /\ 5 \in it.predicates_[1]
    /\ get_mask(cfg, it) \in ClaimMasks(cfg)
    /\ calls.inc > 0

\* the n-th triple of the visitation order a thread map fixes: vector
\* fastest, then contiguous, then strided
TripleAt(iterations, accesses_per_vector, n) ==
    [v |-> n % accesses_per_vector,
     c |-> (n \div accesses_per_vector) % iterations.contiguous,
     s |-> n \div (accesses_per_vector * iterations.contiguous)]

(* C13  Deterministic visitation order: from the cursor (0,0,0) set at     *)
(* construction, the (vector, contiguous, strided) triple reached by n     *)
(* operator++ calls is the n-th triple (modulo the number of accesses) of  *)
(* the order fixed by the thread-map constants alone, vector fastest, then *)
(* contiguous, then strided, in the pitch-linear and in the affine rank-2  *)
(* iterator, whatever the extent, offsets, pointer, phase or mask.         *)
C13_VisitationOrderFixed ==
    Cursor(it) = TripleAt(cfg.Iterations, kAccessesPerVector(cfg), calls.inc)

C13_Witness ==
    /\ IsAffine(cfg)
    /\ kAccessesPerVector(cfg) = 2
    /\ Cursor(it) = [v |-> 1, c |-> 2, s |-> 2]
    /\ ~it.is_residue_tile_
    /\ mask_state = "cleared"
    /\ Cursor(operator_increment_of(cfg, it)) = [v |-> 0, c |-> 0, s |-> 0]

(* C14  get() and invalid cursors: with gather or permute addressing       *)
(* get() returns the null address exactly when valid() is false at the     *)
(* cursor and a resolved address otherwise; on the plain fast path get()   *)
(* returns an address at every cursor whatever the predicate bit.  (get()  *)
(* is a const member function: it has no successor state.)                 *)
C14_GetNullIffInvalid ==
    /\ (cfg.Gather \/ cfg.Permute) => (get(cfg, it).null <=> ~valid(cfg, it))
    /\ Direct(cfg) => ~get(cfg, it).null

C14_Witness ==
    /\ cfg.Gather
    /\ mask_state = "computed"
    /\ Cursor(it) # [v |-> 0, c |-> 0, s |-> 0]
    /\ ~valid(cfg, it)
    /\ get(cfg, it).null
    /\ \E index \in 0 .. (kPredicateCount(cfg) - 1) :
         ~get(cfg, set_iteration_index(cfg, it, index)).null

\* element offset the gather or permute addressing gives a logical coordinate
IndirectOffset(c, coord) ==
    IF c.Permute
    THEN permute_layout_(c, coord)
    ELSE Indices(coord.strided) * c.stride + coord.contiguous

(* C15  Pointer/coordinate agreement on the gather/permute path (P3):      *)
(* after any sequence of operator++ and add_tile_offset calls a valid      *)
(* get() returns base + bytes(indices[S]*stride + C) with gather and       *)
(* base + bytes(permute(C, S)) with permute, (C, S) being the logical      *)
(* coordinate of the current access in the current tile (thread offset +   *)
(* tile displacement + cursor deltas).                                     *)
C15_IndirectGetAddressesLogicalCoordinate ==
    (~IsAffine(cfg) /\ (cfg.Gather \/ cfg.Permute) /\ valid(cfg, it)) =>
        /\ ~get(cfg, it).null
        /\ get(cfg, it).addr = OffsetBytes(cfg, IndirectOffset(cfg, AccessCoord))

C15_Witness ==
    /\ ~IsAffine(cfg) /\ cfg.Gather /\ cfg.bits = 16
    /\ valid(cfg, it)
    /\ calls.tile >= 2
    /\ logical.contiguous # ConstructOf(cfg).thread_offset_.contiguous
    /\ logical.strided # ConstructOf(cfg).thread_offset_.strided
    /\ Cursor(it).s > 0 /\ Cursor(it).c > 0
    /\ get(cfg, it).addr > 0

----------------------------------------------------------------------------
(* Matrix-layout adapters: PredicatedTileAccessIterator for ColumnMajor,   *)
(* RowMajor, ColumnMajorInterleaved<K> and RowMajorInterleaved<K>          *)
(* The configuration a of an adapter holds its Layout, its MatrixShape     *)
(* Shape, kAdvanceRank, the thread map and the constructor arguments in    *)
(* matrix coordinates; the adapter object is the record of its one data    *)
(* member iterator_.                                                       *)

\* MatrixCoord
make_MatrixCoord(row, column) == [row |-> row, column |-> column]

IsInterleaved(a) == a.Layout \in {"ColumnMajorInterleaved", "RowMajorInterleaved"}

\* Shape of UnderlyingIterator
UnderlyingShape(a) ==
    CASE a.Layout = "ColumnMajor" ->
           make_Coord(a.Shape.row, a.Shape.column)
      [] a.Layout = "RowMajor" ->
           make_Coord(a.Shape.column, a.Shape.row)
      [] a.Layout = "ColumnMajorInterleaved" ->
           make_Coord(a.Shape.row * a.kInterleavedK,
                      CDiv(a.Shape.column, a.kInterleavedK))
      [] a.Layout = "RowMajorInterleaved" ->
           make_Coord(a.Shape.column * a.kInterleavedK,
                      CDiv(a.Shape.row, a.kInterleavedK))

\* AdvanceRank of UnderlyingIterator, the same for both adapters
UnderlyingAdvanceRank_same(a) == IF a.kAdvanceRank = 0 THEN 0 ELSE 1

\* AdvanceRank of UnderlyingIterator
UnderlyingAdvanceRank(a) ==
    CASE a.Layout \in {"ColumnMajor", "ColumnMajorInterleaved"} ->
           (IF a.kAdvanceRank = 0 THEN 0 ELSE 1)
      [] a.Layout \in {"RowMajor", "RowMajorInterleaved"} ->
           (IF a.kAdvanceRank = 0 THEN 1 ELSE 0)

\* constructor coordinates handed on without the interleave factor
UnderlyingCoord_unscaled(a, coord) ==
    IF a.Layout \in {"ColumnMajor", "ColumnMajorInterleaved"}
    THEN make_Coord(coord.row, coord.column)
    ELSE make_Coord(coord.column, coord.row)

\* the PitchLinearCoord the constructor makes of extent and threadblock_offset
UnderlyingCoord(a, coord) ==
    CASE a.Layout = "ColumnMajor" ->
           make_Coord(coord.row, coord.column)
      [] a.Layout = "RowMajor" ->
           make_Coord(coord.column, coord.row)
      [] a.Layout = "ColumnMajorInterleaved" ->
           make_Coord(coord.row * a.kInterleavedK,
                      CDiv(coord.column, a.kInterleavedK))
      [] a.Layout = "RowMajorInterleaved" ->
           make_Coord(coord.column * a.kInterleavedK,
                      CDiv(coord.row, a.kInterleavedK))

\* the coordinate add_tile_offset hands to iterator_.add_tile_offset
UnderlyingTileOffset(a, tile_offset) ==
    CASE a.Layout \in {"ColumnMajor", "ColumnMajorInterleaved"} ->
           make_Coord(tile_offset.row, tile_offset.column)
      [] a.Layout \in {"RowMajor", "RowMajorInterleaved"} ->
           make_Coord(tile_offset.column, tile_offset.row)

\* template and constructor arguments of iterator_
UnderlyingIterator(a) ==
    [kAdvanceRank |-> UnderlyingAdvanceRank(a),
     Shape |-> UnderlyingShape(a),
     Iterations |-> a.Iterations, Delta |-> a.Delta,
     kElementsPerAccess |-> a.kElementsPerAccess,
     AccessElements |-> a.AccessElements, thread_id |-> a.thread_id,
     bits |-> a.bits, stride |-> a.stride,
     Gather |-> IF IsInterleaved(a) THEN FALSE ELSE a.Gather,
     Permute |-> IF IsInterleaved(a) THEN FALSE ELSE a.Permute,
     extent |-> UnderlyingCoord(a, a.extent),
     threadblock_offset |-> UnderlyingCoord(a, a.threadblock_offset)]

adapter_Construct(a) == [iterator_ |-> Construct(UnderlyingIterator(a))]

adapter_set_iteration_index(a, x, index) ==
    [iterator_ |-> set_iteration_index(UnderlyingIterator(a), x.iterator_, index)]

adapter_add_pointer_offset(a, x, pointer_offset) ==
    [iterator_ |-> add_pointer_offset(UnderlyingIterator(a), x.iterator_,
                                      pointer_offset)]

adapter_add_tile_offset(a, x, tile_offset) ==
    [iterator_ |-> add_tile_offset(UnderlyingIterator(a), x.iterator_,
                                   UnderlyingTileOffset(a, tile_offset))]

adapter_get(a, x) == get(UnderlyingIterator(a), x.iterator_)

adapter_operator_increment(a, x) ==
    [iterator_ |-> operator_increment(UnderlyingIterator(a), x.iterator_)]

adapter_clear_mask(a, x, enable) ==
    [iterator_ |-> clear_mask(UnderlyingIterator(a), x.iterator_, enable)]

adapter_enable_mask(a, x) ==
    [iterator_ |-> enable_mask(UnderlyingIterator(a), x.iterator_)]

adapter_set_mask(a, x, mask) ==
    [iterator_ |-> set_mask(UnderlyingIterator(a), x.iterator_, mask)]

adapter_get_mask(a, x) == get_mask(UnderlyingIterator(a), x.iterator_)

adapter_valid(a, x) == valid(UnderlyingIterator(a), x.iterator_)

----------------------------------------------------------------------------
(* AdapterSpec: one adapter of each layout, driven through its interface   *)

\* The thread map is the one-thread map of a 4x2 pitch-linear tile; each
\* adapter gets the MatrixShape its UnderlyingIterator turns into that tile.
AdapterShape(layout) ==
    CASE layout = "ColumnMajor"            -> make_MatrixCoord(4, 2)
      [] layout = "RowMajor"               -> make_MatrixCoord(2, 4)
      [] layout = "ColumnMajorInterleaved" -> make_MatrixCoord(2, 4)
      [] layout = "RowMajorInterleaved"    -> make_MatrixCoord(4, 2)

AdapterLayouts ==
    {"ColumnMajor", "RowMajor", "ColumnMajorInterleaved", "RowMajorInterleaved"}

\* extents and threadblock offsets, as <<row, column>>
AdapterExtents == { <<5, 3>>, <<4, 6>> }

AdapterOffsets == { <<0, 0>>, <<2, 1>> }

AdapterConfigs ==
    { [Layout |-> l, kInterleavedK |-> 2, Shape |-> AdapterShape(l),
       kAdvanceRank |-> r,
       Iterations |-> make_Coord(2, 2), Delta |-> make_Coord(2, 1),
       kElementsPerAccess |-> 2, AccessElements |-> 2, thread_id |-> 0,
       bits |-> 16, stride |-> 9, Gather |-> g, Permute |-> FALSE,
       extent |-> make_MatrixCoord(e[1], e[2]),
       threadblock_offset |-> make_MatrixCoord(o[1], o[2])] :
        l \in AdapterLayouts, r \in {0, 1}, g \in BOOLEAN,
        e \in AdapterExtents, o \in AdapterOffsets }

\* tile deltas passed to add_tile_offset, as <<row, column>>
AdapterTileDeltas == { <<1, 0>>, <<0, 1>> }

AdapterInit ==
    /\ cfg \in { a \in AdapterConfigs : IsInterleaved(a) => ~a.Gather }
    /\ it = adapter_Construct(cfg)
    /\ logical = adapter_Construct(cfg).iterator_.thread_offset_
    /\ calls = [tile |-> 0, aux |-> 0]
    /\ monotone = TRUE
    /\ mask_state = "computed"

AdapterAdvance ==
    /\ it' = adapter_operator_increment(cfg, it)
    /\ UNCHANGED <<cfg, logical, calls, monotone, mask_state>>

AdapterSetIterationIndex(index) ==
    /\ calls.aux < MaxAuxCalls
    /\ it' = adapter_set_iteration_index(cfg, it, index)
    /\ calls' = [calls EXCEPT !.aux = @ + 1]
    /\ UNCHANGED <<cfg, logical, monotone, mask_state>>

AdapterAddPointerOffset(pointer_offset) ==
    /\ calls.aux < MaxAuxCalls
    /\ it' = adapter_add_pointer_offset(cfg, it, pointer_offset)
    /\ calls' = [calls EXCEPT !.aux = @ + 1]
    /\ monotone' = FALSE
    /\ UNCHANGED <<cfg, logical, mask_state>>

AdapterAddTileOffset(tile_offset) ==
    /\ calls.tile < MaxTileAdvances
    /\ it' = adapter_add_tile_offset(cfg, it, tile_offset)
    /\ calls' = [calls EXCEPT !.tile = @ + 1]
    /\ mask_state' = IF it.iterator_.is_residue_tile_ THEN "computed" ELSE mask_state
    /\ UNCHANGED <<cfg, logical, monotone>>

AdapterClearMask ==
    /\ it' = adapter_clear_mask(cfg, it, TRUE)
    /\ mask_state' = "cleared"
    /\ UNCHANGED <<cfg, logical, calls, monotone>>

AdapterEnableMask ==
    /\ it' = adapter_enable_mask(cfg, it)
    /\ mask_state' = "overridden"
    /\ UNCHANGED <<cfg, logical, calls, monotone>>

AdapterSetMask(mask) ==
    /\ it' = adapter_set_mask(cfg, it, mask)
    /\ mask_state' = "overridden"
    /\ UNCHANGED <<cfg, logical, calls, monotone>>

AdapterNext ==
    \/ AdapterAdvance
    \/ \E index \in IndexInputs(UnderlyingIterator(cfg)) : AdapterSetIterationIndex(index)
    \/ \E pointer_offset \in PointerOffsets : AdapterAddPointerOffset(pointer_offset)
    \/ \E d \in AdapterTileDeltas :
         AdapterAddTileOffset(make_MatrixCoord(d[1], d[2]))
    \/ AdapterClearMask
    \/ AdapterEnableMask
    \/ \E mask \in MaskInputs(UnderlyingIterator(cfg)) : AdapterSetMask(mask)

AdapterSpec == AdapterInit /\ [][AdapterNext]_vars

\* tile deltas and pointer offsets the adapters are compared on
AdapterClaimDeltas == { make_MatrixCoord(x, y) : x \in -1 .. 2, y \in -1 .. 2 }

AdapterClaimOffsets == { -1, 3 }

\* The adapter in state `it` behaves as the pitch-linear core with
\* configuration core does in the state of iterator_, tile deltas being
\* mapped by swap (FALSE: (row, column), TRUE: (column, row)): construction
\* and every operation leave the same state and return the same result.
BehavesAsCore(core, swap) ==
    LET x == it.iterator_
        Mapped(d) == IF swap THEN make_Coord(d.column, d.row)
                             ELSE make_Coord(d.row, d.column)
    IN  /\ adapter_Construct(cfg).iterator_ = Construct(core)
        /\ \A index \in 0 .. (kPredicateCount(core) - 1) :
             adapter_set_iteration_index(cfg, it, index).iterator_
                 = set_iteration_index(core, x, index)
        /\ \A o \in AdapterClaimOffsets :
             adapter_add_pointer_offset(cfg, it, o).iterator_
                 = add_pointer_offset(core, x, o)
        /\ \A d \in AdapterClaimDeltas :
             adapter_add_tile_offset(cfg, it, d).iterator_
                 = add_tile_offset(core, x, Mapped(d))
        /\ adapter_operator_increment(cfg, it).iterator_ = operator_increment(core, x)
        /\ adapter_get(cfg, it) = get(core, x)
        /\ adapter_valid(cfg, it) = valid(core, x)
        /\ \A enable \in BOOLEAN :
             adapter_clear_mask(cfg, it, enable).iterator_ = clear_mask(core, x, enable)
        /\ adapter_enable_mask(cfg, it).iterator_ = enable_mask(core, x)
        /\ \A m \in ClaimMasks(core) :
             adapter_set_mask(cfg, it, m).iterator_ = set_mask(core, x, m)
        /\ adapter_get_mask(cfg, it) = get_mask(core, x)

\* the core the claims name: tile shape, extent and threadblock offset given
\* by shape, extent and offset, advance rank flipped or not
CoreNamed(shape, extent, offset, flipped) ==
    [kAdvanceRank |-> IF flipped THEN 1 - cfg.kAdvanceRank ELSE cfg.kAdvanceRank,
     Shape |-> shape,
     Iterations |-> cfg.Iterations, Delta |-> cfg.Delta,
     kElementsPerAccess |-> cfg.kElementsPerAccess,
     AccessElements |-> cfg.AccessElements, thread_id |-> cfg.thread_id,
     bits |-> cfg.bits, stride |-> cfg.stride,
     Gather |-> cfg.Gather, Permute |-> cfg.Permute,
     extent |-> extent, threadblock_offset |-> offset]

(* C16  Matrix-layout adapters are pure delegation with a coordinate       *)
(* mapping: the column-major adapter behaves exactly as the pitch-linear   *)
(* core given (contiguous, strided) = (row, column) with the same advance  *)
(* rank, the row-major adapter as the core given (contiguous, strided) =   *)
(* (column, row) with the advance rank flipped, for extent, threadblock    *)
(* offset, tile shape and tile delta alike, on construction and on every   *)
(* operation.                                                              *)
C16_AdaptersDelegate ==
    /\ cfg.Layout = "ColumnMajor" =>
         BehavesAsCore(
           CoreNamed(make_Coord(cfg.Shape.row, cfg.Shape.column),
                     make_Coord(cfg.extent.row, cfg.extent.column),
                     make_Coord(cfg.threadblock_offset.row,
                                cfg.threadblock_offset.column),
                     FALSE),
           FALSE)
    /\ cfg.Layout = "RowMajor" =>
         BehavesAsCore(
           CoreNamed(make_Coord(cfg.Shape.column, cfg.Shape.row),
                     make_Coord(cfg.extent.column, cfg.extent.row),
                     make_Coord(cfg.threadblock_offset.column,
                                cfg.threadblock_offset.row),
                     TRUE),
           TRUE)

C16_Witness ==
    /\ cfg.Layout = "RowMajor" /\ cfg.kAdvanceRank = 0 /\ cfg.Gather
    /\ cfg.extent = make_MatrixCoord(5, 3)
    /\ it.iterator_.extent_ = make_Coord(3, 5)
    /\ calls.tile >= 2 /\ calls.aux >= 1
    /\ ~it.iterator_.is_residue_tile_
    /\ it.iterator_.coord_offset_.strided > 4
    /\ adapter_valid(cfg, it)
    /\ ~adapter_get(cfg, it).null

(* C17  Interleaved adapters: the column-major interleaved adapter with    *)
(* factor K delegates to a pitch-linear core with tile shape (kRow*K,      *)
(* kColumn/K), extent (row*K, column/K) and threadblock offset (row*K,     *)
(* column/K); the row-major interleaved adapter uses (column*K, row/K)     *)
(* with the advance rank flipped; tile deltas are forwarded unscaled, so   *)
(* one adapter tile step is one core tile step.                            *)
C17_InterleavedAdaptersDelegate ==
    LET K == cfg.kInterleavedK
    IN  /\ cfg.Layout = "ColumnMajorInterleaved" =>
             BehavesAsCore(
               CoreNamed(make_Coord(cfg.Shape.row * K, cfg.Shape.column \div K),
                         make_Coord(cfg.extent.row * K, cfg.extent.column \div K),
                         make_Coord(cfg.threadblock_offset.row * K,
                                    cfg.threadblock_offset.column \div K),
                         FALSE),
               FALSE)
        /\ cfg.Layout = "RowMajorInterleaved" =>
             BehavesAsCore(
               CoreNamed(make_Coord(cfg.Shape.column * K, cfg.Shape.row \div K),
                         make_Coord(cfg.extent.column * K, cfg.extent.row \div K),
                         make_Coord(cfg.threadblock_offset.column * K,
                                    cfg.threadblock_offset.row \div K),
                         TRUE),
               TRUE)

C17_Witness ==
    /\ cfg.Layout = "RowMajorInterleaved" /\ cfg.kAdvanceRank = 1
    /\ cfg.extent = make_MatrixCoord(5, 3)
    /\ cfg.threadblock_offset = make_MatrixCoord(2, 1)
    /\ it.iterator_.extent_ = make_Coord(6, 2)
    /\ calls.tile >= 2
    /\ ~it.iterator_.is_residue_tile_
    /\ it.iterator_.thread_offset_.contiguous > 2
    /\ adapter_valid(cfg, it)
    /\ Cursor(it.iterator_) # [v |-> 0, c |-> 0, s |-> 0]

ConstructedThreadOffset ==
    CoordAdd(cfg.threadblock_offset, initial_offset(cfg, cfg.thread_id))

(* C19  ThreadOffset tracks tile advances, as stated: thread_offset_ is    *)
(* threadblock offset + thread-map initial offset at construction, and     *)
(* after every add_tile_offset(d) it equals the logical coordinate of the  *)
(* thread's first access in the tile the iterator now points at.           *)
C19_ThreadOffsetTracksTile ==
    /\ calls.tile = 0 => it.thread_offset_ = ConstructedThreadOffset
    /\ it.thread_offset_ = logical

(* C19 as amended: thread_offset_ is threadblock offset + thread-map       *)
(* initial offset at construction; the first add_tile_offset adds the      *)
(* residue offset to it, whatever the tile delta, and no later call        *)
(* changes it.  It is the logical coordinate of the thread's first access  *)
(* in the tile addressed only up to a first step of one tile along the     *)
(* advance axis; along the other axis it stays that coordinate as long as  *)
(* every tile delta is a forward step along the advance axis alone.        *)
C19_ThreadOffsetMovesOnce ==
    /\ calls.tile = 0 => it.thread_offset_ = ConstructedThreadOffset
    /\ calls.tile > 0 =>
         it.thread_offset_ = CoordAdd(ConstructedThreadOffset, it.residue_offset_)
    /\ (UnitTraversal /\ calls.tile <= 1) => it.thread_offset_ = logical
    /\ monotone =>
         Oth(cfg.kAdvanceRank, it.thread_offset_) = Oth(cfg.kAdvanceRank, logical)

C19_Witness ==
    /\ UnitTraversal
    /\ calls.tile >= 2
    /\ it.thread_offset_ = CoordAdd(ConstructedThreadOffset, it.residue_offset_)
    /\ it.thread_offset_ # logical
    /\ AdvOffset > 0

----------------------------------------------------------------------------
(* Several threads, each owning one iterator                               *)
(* In ThreadsSpec cfg holds the template and constructor arguments the     *)
(* threads share (thread_id left out), `it` maps each thread id to the     *)
(* data members of that thread's iterator, and the history variable calls  *)
(* maps each thread id to the sequence of calls the thread has made.       *)

\* calls one thread makes
MaxThreadCalls == 3

\* thread ids of the threadblock that are followed
Threads == {0, 3}

\* the arguments thread t constructs its iterator with
ThreadConfig(c, t) == ("thread_id" :> t) @@ c

SharedConfigs ==
    { [kAdvanceRank |-> r, Shape |-> make_Coord(2, 4),
       Iterations |-> make_Coord(1, 2), Delta |-> make_Coord(1, 2),
       kElementsPerAccess |-> 1, AccessElements |-> 1,
       bits |-> 16, stride |-> 9, Gather |-> FALSE, Permute |-> FALSE,
       extent |-> AxisCoord(r, e[1], e[2]),
       threadblock_offset |-> make_Coord(0, 0)] :
        r \in {0, 1}, e \in { <<3, 4>>, <<6, 1>> } }

\* the member function a call names, applied to one iterator
Call(c, i, call) ==
    CASE call.op = "operator++"          -> operator_increment(c, i)
      [] call.op = "add_tile_offset"     -> add_tile_offset(c, i, call.arg)
      [] call.op = "set_iteration_index" -> set_iteration_index(c, i, call.arg)
      [] call.op = "clear_mask"          -> clear_mask(c, i, call.arg)

\* a call of thread t that writes its predicates into every thread's iterator
thread_call_shared_predicates(c, its, t, call) ==
    LET mine == Call(ThreadConfig(c, t), its[t], call)
    IN  [u \in DOMAIN its |->
           IF u = t THEN mine ELSE [its[u] EXCEPT !.predicates_ = mine.predicates_]]

\* a call of thread t: the member function runs on the iterator t owns
thread_call(c, its, t, call) ==
    [its EXCEPT ![t] = Call(ThreadConfig(c, t), its[t], call)]

ThreadsInit ==
    /\ cfg \in SharedConfigs
    /\ it = [t \in Threads |-> Construct(ThreadConfig(cfg, t))]
    /\ calls = [t \in Threads |-> << >>]
    /\ logical = make_Coord(0, 0)
    /\ monotone = TRUE
    /\ mask_state = "computed"

ThreadCalls(t, call) ==
    /\ Len(calls[t]) < MaxThreadCalls
    /\ it' = thread_call(cfg, it, t, call)
    /\ calls' = [calls EXCEPT ![t] = Append(@, call)]
    /\ UNCHANGED <<cfg, logical, monotone, mask_state>>

ThreadAdvance(t) == ThreadCalls(t, [op |-> "operator++", arg |-> 0])

ThreadAddTileOffset(t, tile_offset) ==
    ThreadCalls(t, [op |-> "add_tile_offset", arg |-> tile_offset])

ThreadSetIterationIndex(t, index) ==
    ThreadCalls(t, [op |-> "set_iteration_index", arg |-> index])

ThreadClearMask(t) == ThreadCalls(t, [op |-> "clear_mask", arg |-> TRUE])

ThreadsNext ==
    \E t \in Threads :
        \/ ThreadAdvance(t)
        \/ ThreadAddTileOffset(t, AxisCoord(cfg.kAdvanceRank, 1, 0))
        \/ ThreadSetIterationIndex(t, kPredicateCount(cfg) - 1)
        \/ ThreadClearMask(t)

ThreadsSpec == ThreadsInit /\ [][ThreadsNext]_vars

\* the iterator of a thread that makes the calls of history alone
RECURSIVE RunsAlone(_, _)
RunsAlone(c, history) ==
    IF history = << >>
    THEN Construct(c)
    ELSE Call(c, RunsAlone(c, SubSeq(history, 1, Len(history) - 1)),
              history[Len(history)])

----------------------------------------------------------------------------
(* C21  Immutability of the construction-time geometry: after construction *)
(* no operation (operator++, set_iteration_index, add_pointer_offset,      *)
(* add_tile_offset, clear_mask, enable_mask, set_mask) changes the stored  *)
(* extent or the residue offset, in the pitch-linear and in the affine     *)
(* rank-2 iterator; in every reachable state they are the values the       *)
(* constructor stored.  The Params increments are read from the            *)
(* configuration, which no action changes.                                 *)
Geometry(i) == [extent_ |-> i.extent_, residue_offset_ |-> i.residue_offset_]

\* the states one call of a member function can leave the iterator in
AfterOneCall(c, i) ==
    { operator_increment_of(c, i), enable_mask(c, i) }
      \cup { set_iteration_index(c, i, index) : index \in IndexInputs(c) }
      \cup { add_pointer_offset(c, i, o) : o \in {-1, 3} }
      \cup { add_tile_offset_of(c, i, d) : d \in ClaimDeltas }
      \cup { clear_mask(c, i, enable) : enable \in BOOLEAN }
      \cup { set_mask(c, i, mask) : mask \in MaskInputs(c) }

C21_GeometryImmutable ==
    /\ Geometry(it) = Geometry(ConstructOf(cfg))
    /\ it.extent_ = cfg.extent
    /\ \A after \in AfterOneCall(cfg, it) : Geometry(after) = Geometry(it)

C21_Witness ==
    /\ IsAffine(cfg)
    /\ calls.tile >= 2
    /\ mask_state = "overridden"
    /\ Cursor(it) # [v |-> 0, c |-> 0, s |-> 0]
    /\ AdvResidue \notin {0, AdvTile}
    /\ it.thread_offset_ # ConstructOf(cfg).thread_offset_

----------------------------------------------------------------------------
(* C22  Validity is a function of the cursor and the predicate words: any  *)
(* two iterators that agree on (iteration_vector_, iteration_contiguous_,  *)
(* iteration_strided_) and on predicates_ return the same valid(),         *)
(* whatever their extent, thread offset, pointer and is_residue_tile_.     *)
SameCursorAndWords(i, j) == Cursor(i) = Cursor(j) /\ i.predicates_ = j.predicates_

\* iterator states that differ from i in everything but cursor and words
ElsewhereWith(i) ==
    { [i EXCEPT !.extent_ = e, !.thread_offset_ = o, !.pointer_ = p,
                !.is_residue_tile_ = f] :
        e \in { make_Coord(0, 0), make_Coord(9, 9) },
        o \in { make_Coord(0, 0), make_Coord(7, 5) },
        p \in { 0, 64 }, f \in BOOLEAN }

C22_ValidFromCursorAndWords ==
    \A t \in Threads, u \in Threads :
        SameCursorAndWords(it[t], it[u]) =>
            /\ valid(ThreadConfig(cfg, t), it[t]) = valid(ThreadConfig(cfg, u), it[u])
            /\ \A j \in ElsewhereWith(it[u]) :
                 valid(ThreadConfig(cfg, u), j) = valid(ThreadConfig(cfg, t), it[t])

C22_Witness ==
    /\ SameCursorAndWords(it[0], it[3])
    /\ valid(ThreadConfig(cfg, 0), it[0])
    /\ Cursor(it[0]) # [v |-> 0, c |-> 0, s |-> 0]
    /\ it[0].is_residue_tile_ # it[3].is_residue_tile_
    /\ it[0].thread_offset_ # it[3].thread_offset_
    /\ it[0].pointer_ # it[3].pointer_

----------------------------------------------------------------------------
(* C23  clear_mask(enable): with enable = true every predicate word        *)
(* becomes zero (and stays zero until the words are written again); with   *)
(* enable = false the predicate words are left exactly as they were.  No   *)
(* other member changes in either case.                                    *)
C23_ClearMaskZeroesOrKeeps ==
    /\ clear_mask(cfg, it, TRUE) = [it EXCEPT !.predicates_ = ZeroMask(cfg)]
    /\ \A w \in Words(cfg) : clear_mask(cfg, it, TRUE).predicates_[w] = {}
    /\ clear_mask(cfg, it, FALSE) = it
    /\ mask_state = "cleared" => it.predicates_ = ZeroMask(cfg)

C23_Witness ==
    /\ mask_state = "cleared"
    /\ kPredicateWordCount(cfg) = 2
    /\ calls.tile >= 1
    /\ it.predicates_ = ZeroMask(cfg)
    /\ compute_predicates_(cfg, it, it.extent_, TRUE).predicates_[1] # {}
    /\ Cursor(it) # [v |-> 0, c |-> 0, s |-> 0]

----------------------------------------------------------------------------
(* The predicate mask and the operations that write it                     *)
(* MaskSpec runs one pitch-linear iterator on the direct path and keeps,   *)
(* in mask_state, which operation wrote predicates_ last: "computed"       *)
(* (compute_predicates_), "cleared" (clear_mask(true)), "enabled"          *)
(* (enable_mask) or "set" (set_mask).                                      *)

\* tensor extents, as <<advance axis, other axis>>
MaskExtents == { <<0, 4>>, <<7, 2>>, <<6, 4>>, <<13, 3>> }

\* threadblock offsets, as <<advance axis, other axis>>
MaskOffsets == { <<0, 0>>, <<2, 1>>, <<8, 0>> }

MaskConfigs ==
    { [kAdvanceRank |-> r, Shape |-> tm.Shape, Iterations |-> tm.Iterations,
       Delta |-> tm.Delta, kElementsPerAccess |-> tm.kElementsPerAccess,
       AccessElements |-> tm.AccessElements, thread_id |-> tm.thread_id,
       bits |-> 8, stride |-> 16, Gather |-> FALSE, Permute |-> FALSE,
       extent |-> AxisCoord(r, e[1], e[2]),
       threadblock_offset |-> AxisCoord(r, o[1], o[2])] :
        r \in {0, 1}, tm \in VariantThreadMaps, e \in MaskExtents,
        o \in MaskOffsets }

\* tile deltas passed to add_tile_offset, as <<advance axis, other axis>>
MaskTileDeltas == { <<1, 0>>, <<0, 1>> }

MaskInit ==
    /\ cfg \in MaskConfigs
    /\ it = Construct(cfg)
    /\ logical = Construct(cfg).thread_offset_
    /\ calls = [tile |-> 0, aux |-> 0]
    /\ monotone = TRUE
    /\ mask_state = "computed"

MaskAdvance ==
    /\ it' = operator_increment(cfg, it)
    /\ UNCHANGED <<cfg, logical, calls, monotone, mask_state>>

MaskSetIterationIndex(index) ==
    /\ calls.aux < MaxAuxCalls
    /\ it' = set_iteration_index(cfg, it, index)
    /\ calls' = [calls EXCEPT !.aux = @ + 1]
    /\ UNCHANGED <<cfg, logical, monotone, mask_state>>

MaskAddTileOffset(tile_offset) ==
    /\ calls.tile < MaxTileAdvances
    /\ it' = add_tile_offset(cfg, it, tile_offset)
    /\ logical' = CoordAdd(logical, TileDisplacement(cfg, it, tile_offset))
    /\ calls' = [calls EXCEPT !.tile = @ + 1]
    /\ monotone' = (monotone /\ Oth(cfg.kAdvanceRank, tile_offset) = 0)
    /\ mask_state' = IF it.is_residue_tile_ THEN "computed" ELSE mask_state
    /\ UNCHANGED cfg

MaskClearMask(enable) ==
    /\ it' = clear_mask(cfg, it, enable)
    /\ mask_state' = IF enable THEN "cleared" ELSE mask_state
    /\ UNCHANGED <<cfg, logical, calls, monotone>>

MaskEnableMask ==
    /\ it' = enable_mask(cfg, it)
    /\ mask_state' = "enabled"
    /\ UNCHANGED <<cfg, logical, calls, monotone>>

MaskSetMask(mask) ==
    /\ it' = set_mask(cfg, it, mask)
    /\ mask_state' = "set"
    /\ UNCHANGED <<cfg, logical, calls, monotone>>

MaskNext ==
    \/ MaskAdvance
    \/ \E index \in IndexInputs(cfg) : MaskSetIterationIndex(index)
    \/ \E d \in MaskTileDeltas :
         MaskAddTileOffset(AxisCoord(cfg.kAdvanceRank, d[1], d[2]))
    \/ \E enable \in BOOLEAN : MaskClearMask(enable)
    \/ MaskEnableMask
    \/ \E mask \in MaskInputs(cfg) : MaskSetMask(mask)

MaskSpec == MaskInit /\ [][MaskNext]_vars

(* C24  enable_mask() force-enables the thread's whole access set: after   *)
(* it valid() is true at every cursor position, whatever the extent and    *)
(* whatever the mask held before, and it stays true through every call     *)
(* that is not clear_mask(true), set_mask or the predicate recomputation   *)
(* (the add_tile_offset made on the residue tile).                         *)
AllValid(c, i) ==
    \A index \in 0 .. (kPredicateCount(c) - 1) :
        valid(c, set_iteration_index(c, i, index))

----------------------------------------------------------------------------
(* Instantiation of the templates                                          *)
(* InstantiationSpec starts from template arguments that have not been     *)
(* instantiated yet (mask_state = "uninstantiated", `it` empty).  The step *)
(* Instantiate is the compilation of the instantiation followed by the     *)
(* construction of the iterator: it is possible only if the static_asserts *)
(* of the class hold.  The steps after it are the run-time operations.     *)

\* static_asserts accepting one predicate word more
static_asserts_five_words(c) ==
    /\ c.kElementsPerAccess % c.AccessElements = 0
    /\ kPredicateWordCount(c) <= 5

\* the static_asserts of PredicatedTileAccessIteratorPredicates
static_asserts(c) ==
    /\ c.kElementsPerAccess % c.AccessElements = 0
    /\ kPredicateWordCount(c) <= 4

\* thread maps and access types asked for: <<Iterations::kContiguous,
\* Iterations::kStrided, kElementsPerAccess, AccessType::kElements>>
CandidateArguments ==
    { <<1, 2, 1, 1>>, <<8, 8, 1, 1>>, <<13, 5, 1, 1>>, <<8, 4, 2, 1>>,
      <<8, 4, 4, 1>>, <<2, 2, 2, 4>>, <<2, 2, 4, 3>>, <<2, 2, 4, 2>> }

CandidateConfigs ==
    { [kAdvanceRank |-> r,
       Shape |-> make_Coord(a[1] * a[3], a[2]),
       Iterations |-> make_Coord(a[1], a[2]),
       Delta |-> make_Coord(a[3], 1),
       kElementsPerAccess |-> a[3], AccessElements |-> a[4], thread_id |-> 0,
       bits |-> 8, stride |-> 64, Gather |-> FALSE, Permute |-> FALSE,
       extent |-> make_Coord(5, 3),
       threadblock_offset |-> make_Coord(0, 0)] :
        r \in {0, 1}, a \in CandidateArguments }

InstantiationInit ==
    /\ cfg \in CandidateConfigs
    /\ it = << >>
    /\ logical = make_Coord(0, 0)
    /\ calls = [tile |-> 0, aux |-> 0]
    /\ monotone = TRUE
    /\ mask_state = "uninstantiated"

Instantiate ==
    /\ mask_state = "uninstantiated"
    /\ static_asserts(cfg)
    /\ it' = Construct(cfg)
    /\ logical' = Construct(cfg).thread_offset_
    /\ mask_state' = "computed"
    /\ UNCHANGED <<cfg, calls, monotone>>

\* the run-time operations, on an iterator that exists
RunTimeOperation ==
    /\ mask_state # "uninstantiated"
    /\ MaskNext

InstantiationNext == Instantiate \/ RunTimeOperation

InstantiationSpec == InstantiationInit /\ [][InstantiationNext]_vars

(* C25  Misconfiguration is rejected at configuration time, never at run   *)
(* time: template arguments whose thread-map elements-per-access is not a  *)
(* multiple of the access type's element count, or whose predicate count   *)
(* (iterations x accesses per vector) exceeds 64 (more than 4 mask words), *)
(* cannot be instantiated, so no iterator of such a configuration exists;  *)
(* the run-time operations of an iterator that exists report no error:     *)
(* each returns an iterator state.                                         *)
Misconfigured(c) ==
    \/ c.kElementsPerAccess % c.AccessElements # 0
    \/ c.Iterations.contiguous * c.Iterations.strided
         * (c.kElementsPerAccess \div c.AccessElements) > 64

C25_MisconfigurationRejectedAtInstantiation ==
    /\ Misconfigured(cfg) => (mask_state = "uninstantiated" /\ ~ENABLED Instantiate)
    /\ mask_state # "uninstantiated" =>
         \A after \in { operator_increment(cfg, it), enable_mask(cfg, it),
                         set_iteration_index(cfg, it, kPredicateCount(cfg) - 1),
                         add_tile_offset(cfg, it, make_Coord(1, 1)),
                         clear_mask(cfg, it, TRUE), set_mask(cfg, it, ZeroMask(cfg)) } :
             DOMAIN after = DOMAIN it

\* template arguments with 65 predicates, which only the word-count assertion
\* rejects: no step leaves the uninstantiated state
C25_Witness ==
    /\ mask_state = "uninstantiated"
    /\ cfg.kElementsPerAccess % cfg.AccessElements = 0
    /\ kPredicateCount(cfg) = 65
    /\ ~ENABLED InstantiationNext

\* template arguments at the bound (64 predicates, 4 words) are instantiated
C25_AcceptedAtBound ==
    /\ mask_state # "uninstantiated"
    /\ kPredicateCount(cfg) = 64 /\ kPredicateWordCount(cfg) = 4
    /\ kAccessesPerVector(cfg) = 2
    /\ Cursor(it) = [v |-> 1, c |-> 7, s |-> 3]
    /\ calls.tile >= 1

----------------------------------------------------------------------------
(* PredicatedTileAccessIteratorPredicates on its own                       *)
(* In PredicatesSpec `it` holds the data members of one predicates object  *)
(* (no pointer_, no is_residue_tile_), constructed and initialised with    *)
(* set_predicates as every iterator constructor does.  Its public member   *)
(* functions are then called in any order.  The history variable calls     *)
(* holds the arguments of the latest compute_predicates_ call, mask_state  *)
(* the operation that wrote predicates_ last.                              *)

\* compute_predicates_ calls made on one object, set_predicates' included
MaxComputations == 3

\* the constructor followed by set_predicates, from the arguments held in c
predicates_Construct(c) ==
    set_predicates(c,
        [predicates_           |-> ZeroMask(c),
         extent_               |-> c.extent,
         thread_offset_        |-> make_Coord(0, 0),
         residue_offset_       |-> make_Coord(0, 0),
         iteration_vector_     |-> 0,
         iteration_contiguous_ |-> 0,
         iteration_strided_    |-> 0,
         computed              |-> 0],
        c.thread_id, c.threadblock_offset)

\* window extents passed to compute_predicates_
WindowExtents ==
    { make_Coord(0, 0), make_Coord(3, 2), make_Coord(5, 9), make_Coord(20, 1) }

PredicatesInit ==
    /\ cfg \in MaskConfigs
    /\ it = predicates_Construct(cfg)
    /\ logical = predicates_Construct(cfg).thread_offset_
    /\ calls = [window |-> residue_extent(cfg, cfg.extent, cfg.threadblock_offset,
                              residue_size(cfg, cfg.extent, cfg.threadblock_offset)),
                is_steady_state |-> FALSE]
    /\ monotone = TRUE
    /\ mask_state = "computed"

PredicatesCompute(extent, is_steady_state) ==
    /\ it.computed < MaxComputations
    /\ it' = compute_predicates_(cfg, it, extent, is_steady_state)
    /\ calls' = [window |-> extent, is_steady_state |-> is_steady_state]
    /\ mask_state' = "computed"
    /\ UNCHANGED <<cfg, logical, monotone>>

PredicatesSetIterationIndex(index) ==
    /\ it' = set_iteration_index(cfg, it, index)
    /\ UNCHANGED <<cfg, logical, calls, monotone, mask_state>>

PredicatesClearMask(enable) ==
    /\ it' = clear_mask(cfg, it, enable)
    /\ mask_state' = IF enable THEN "cleared" ELSE mask_state
    /\ UNCHANGED <<cfg, logical, calls, monotone>>

PredicatesEnableMask ==
    /\ it' = enable_mask(cfg, it)
    /\ mask_state' = "enabled"
    /\ UNCHANGED <<cfg, logical, calls, monotone>>

PredicatesSetMask(mask) ==
    /\ it' = set_mask(cfg, it, mask)
    /\ mask_state' = "set"
    /\ UNCHANGED <<cfg, logical, calls, monotone>>

PredicatesNext ==
    \/ \E extent \in WindowExtents \cup { it.extent_ }, is_steady_state \in BOOLEAN :
         PredicatesCompute(extent, is_steady_state)
    \/ \E index \in 0 .. (kPredicateCount(cfg) - 1) : PredicatesSetIterationIndex(index)
    \/ \E enable \in BOOLEAN : PredicatesClearMask(enable)
    \/ PredicatesEnableMask
    \/ \E mask \in MaskInputs(cfg) : PredicatesSetMask(mask)

PredicatesSpec == PredicatesInit /\ [][PredicatesNext]_vars

\* the triples (v, c, s) of the thread map, enumerated from its constants
ThreadMapTriples(c) ==
    { [v |-> v, c |-> x, s |-> y] :
        v \in 0 .. (kAccessesPerVector(c) - 1),
        x \in 0 .. (c.Iterations.contiguous - 1),
        y \in 0 .. (c.Iterations.strided - 1) }

\* coordinate of access t of a thread whose first access is at thread_offset
TripleCoord(c, thread_offset, t) ==
    make_Coord(thread_offset.contiguous + t.c * c.Delta.contiguous
                 + t.v * c.AccessElements,
               thread_offset.strided + t.s * c.Delta.strided)

\* what valid() returns with the cursor at triple t
ValidAt(c, i, t) ==
    valid(c, [i EXCEPT !.iteration_vector_ = t.v,
                       !.iteration_contiguous_ = t.c,
                       !.iteration_strided_ = t.s])

(* C26  Non-steady-state predicate computation: compute_predicates_(extent,*)
(* false) sets the bit of access (v, c, s) if and only if both coordinates *)
(* of thread_offset + (c*Delta::kContiguous + v*AccessType::kElements,     *)
(* s*Delta::kStrided) are strictly below the window extent, for every      *)
(* triple of the thread map.                                               *)
C26_NonSteadyStateChecksBothAxes ==
    (mask_state = "computed" /\ ~calls.is_steady_state) =>
        \A t \in ThreadMapTriples(cfg) :
            ValidAt(cfg, it, t)
                <=> /\ TripleCoord(cfg, it.thread_offset_, t).contiguous
                         < calls.window.contiguous
                    /\ TripleCoord(cfg, it.thread_offset_, t).strided
                         < calls.window.strided

\* a computed mask with a valid access, an access at the window's edge along
\* the contiguous axis only and one at its edge along the strided axis only
C26_Witness ==
    /\ mask_state = "computed" /\ ~calls.is_steady_state
    /\ it.computed >= 2
    /\ kPredicateWordCount(cfg) = 2
    /\ it.thread_offset_ # make_Coord(0, 0)
    /\ Cursor(it) # [v |-> 0, c |-> 0, s |-> 0]
    /\ LET x(t) == TripleCoord(cfg, it.thread_offset_, t)
       IN  /\ \E t \in ThreadMapTriples(cfg) : ValidAt(cfg, it, t)
           /\ \E t \in ThreadMapTriples(cfg) :
                /\ ~ValidAt(cfg, it, t)
                /\ x(t).contiguous = calls.window.contiguous
                /\ x(t).strided < calls.window.strided
           /\ \E t \in ThreadMapTriples(cfg) :
                /\ ~ValidAt(cfg, it, t)
                /\ x(t).contiguous < calls.window.contiguous
                /\ x(t).strided = calls.window.strided

(* C27  Steady-state predicate computation checks only the axis that is    *)
(* not advanced: compute_predicates_(extent, true) sets the bit of access  *)
(* (v, c, s) if and only if its strided coordinate is below extent.strided *)
(* when the advance rank is 0, and if and only if its contiguous           *)
(* coordinate is below extent.contiguous when the advance rank is 1; the   *)
(* coordinate along the advance axis does not influence the bit.           *)
\* thread_offset_ moved by shift along the advance axis
ShiftedAlongAdvanceAxis(c, i, shift) ==
    [i EXCEPT !.thread_offset_ = CoordAdd(@, AxisCoord(c.kAdvanceRank, shift, 0))]

C27_SteadyStateChecksOtherAxis ==
    (mask_state = "computed" /\ calls.is_steady_state) =>
        /\ \A t \in ThreadMapTriples(cfg) :
             ValidAt(cfg, it, t)
                 <=> IF cfg.kAdvanceRank = 0
                     THEN TripleCoord(cfg, it.thread_offset_, t).strided
                              < calls.window.strided
                     ELSE TripleCoord(cfg, it.thread_offset_, t).contiguous
                              < calls.window.contiguous
        /\ \A shift \in {-3, 50} :
             compute_predicates_(cfg, ShiftedAlongAdvanceAxis(cfg, it, shift),
                                 calls.window, TRUE).predicates_ = it.predicates_

\* a steady-state mask with a valid access past the window along the advance
\* axis, and an access the other axis rules out
C27_Witness ==
    /\ mask_state = "computed" /\ calls.is_steady_state
    /\ kPredicateWordCount(cfg) = 2
    /\ Cursor(it) # [v |-> 0, c |-> 0, s |-> 0]
    /\ \E t \in ThreadMapTriples(cfg) :
         /\ ValidAt(cfg, it, t)
         /\ Adv(cfg.kAdvanceRank, TripleCoord(cfg, it.thread_offset_, t))
              >= Adv(cfg.kAdvanceRank, calls.window)
    /\ \E t \in ThreadMapTriples(cfg) :
         /\ ~ValidAt(cfg, it, t)
         /\ Adv(cfg.kAdvanceRank, TripleCoord(cfg, it.thread_offset_, t))
              < Adv(cfg.kAdvanceRank, calls.window)

(* C28  Construction residue rule: the residue offset is zero on the axis  *)
(* that is not advanced and, on the advance axis, equals (extent -         *)
(* threadblock offset) mod tile size, replaced by the tile size when that  *)
(* remainder is zero, so for every threadblock offset not exceeding the    *)
(* extent it lies in [1, tile size]; the first tile's predicates are       *)
(* computed in non-steady-state mode against the extent clipped to         *)
(* min(extent, threadblock offset + residue) on the advance axis.          *)
\* the extent with its advance-axis component clipped to bound
ClippedAlongAdvanceAxis(c, extent, bound) ==
    AxisCoord(c.kAdvanceRank,
              Min(Adv(c.kAdvanceRank, extent), bound),
              Oth(c.kAdvanceRank, extent))

C28_ConstructionResidueRule ==
    LET left    == AdvExtent - AdvOffset
        clipped == ClippedAlongAdvanceAxis(cfg, cfg.extent, AdvOffset + AdvResidue)
    IN  /\ Oth(cfg.kAdvanceRank, it.residue_offset_) = 0
        /\ AdvResidue = IF CMod(left, AdvTile) = 0 THEN AdvTile ELSE CMod(left, AdvTile)
        /\ AdvOffset <= AdvExtent =>
             /\ AdvResidue = IF left % AdvTile = 0 THEN AdvTile ELSE left % AdvTile
             /\ 1 <= AdvResidue /\ AdvResidue <= AdvTile
        /\ it.computed = 1 =>
             /\ calls = [window |-> clipped, is_steady_state |-> FALSE]
             /\ mask_state = "computed" =>
                  \A t \in ThreadMapTriples(cfg) :
                      ValidAt(cfg, it, t)
                          <=> /\ TripleCoord(cfg, it.thread_offset_, t).contiguous
                                   < clipped.contiguous
                              /\ TripleCoord(cfg, it.thread_offset_, t).strided
                                   < clipped.strided

\* a constructed mask whose residue depends on the threadblock offset and
\* whose window cuts the tile
C28_Witness ==
    /\ it.computed = 1 /\ mask_state = "computed"
    /\ kPredicateWordCount(cfg) = 2
    /\ AdvOffset > 0 /\ AdvOffset <= AdvExtent
    /\ AdvResidue # AdvTile
    /\ AdvResidue # AdvExtent % AdvTile
    /\ Cursor(it) # [v |-> 0, c |-> 0, s |-> 0]
    /\ \E t \in ThreadMapTriples(cfg) : ValidAt(cfg, it, t)
    /\ \E t \in ThreadMapTriples(cfg) :
         /\ ~ValidAt(cfg, it, t)
         /\ Adv(cfg.kAdvanceRank, TripleCoord(cfg, it.thread_offset_, t))
              >= AdvOffset + AdvResidue
         /\ Oth(cfg.kAdvanceRank, TripleCoord(cfg, it.thread_offset_, t))
              < Oth(cfg.kAdvanceRank, cfg.extent)

(* C29  Bit packing: immediately after construction or a predicate         *)
(* recomputation, the validity bit of access (v, c, s) is stored at bit    *)
(* 8*((p mod 16) div 4) + (p mod 4) of word p div 16, where                *)
(* p = v + kAccessesPerVector*(c + Iterations::kContiguous*s); distinct    *)
(* triples occupy distinct bits, only the low four bits of each byte are   *)
(* used, every other bit of the mask is zero, and valid() at cursor        *)
(* (v, c, s) reads exactly that bit.                                       *)
PackedIndex(c, t) ==
    t.v + (c.kElementsPerAccess \div c.AccessElements)
            * (t.c + c.Iterations.contiguous * t.s)

\* <<word, bit>> the claim gives to triple t
PackedAt(c, t) ==
    LET p == PackedIndex(c, t)
    IN  << p \div 16, 8 * ((p % 16) \div 4) + (p % 4) >>

\* the guard the latest compute_predicates_ call gives to triple t
LatestGuard(t) ==
    LET x == TripleCoord(cfg, it.thread_offset_, t)
    IN  IF ~calls.is_steady_state
        THEN x.contiguous < calls.window.contiguous /\ x.strided < calls.window.strided
        ELSE IF cfg.kAdvanceRank = 0
             THEN x.strided < calls.window.strided
             ELSE x.contiguous < calls.window.contiguous

\* the mask with only bit b of word w set, and the one with all bits but it
OnlyBit(c, w, b) == [x \in Words(c) |-> IF x = w THEN {b} ELSE {}]

AllButBit(c, w, b) ==
    [x \in Words(c) |-> IF x = w THEN (0 .. (kBitsPerWord - 1)) \ {b}
                                   ELSE 0 .. (kBitsPerWord - 1)]

C29_BitPacking ==
    /\ \A t \in ThreadMapTriples(cfg), u \in ThreadMapTriples(cfg) :
         t # u => PackedAt(cfg, t) # PackedAt(cfg, u)
    /\ \A t \in ThreadMapTriples(cfg) :
         /\ PackedAt(cfg, t)[1] \in Words(cfg)
         /\ PackedAt(cfg, t)[2] % 8 < 4
         /\ ValidAt(cfg, it, t) <=>
                PackedAt(cfg, t)[2] \in it.predicates_[PackedAt(cfg, t)[1]]
         /\ ValidAt(cfg, set_mask(cfg, it,
                          OnlyBit(cfg, PackedAt(cfg, t)[1], PackedAt(cfg, t)[2])), t)
         /\ ~ValidAt(cfg, set_mask(cfg, it,
                           AllButBit(cfg, PackedAt(cfg, t)[1], PackedAt(cfg, t)[2])), t)
    /\ mask_state = "computed" =>
         /\ \A t \in ThreadMapTriples(cfg) :
              (PackedAt(cfg, t)[2] \in it.predicates_[PackedAt(cfg, t)[1]])
                  <=> LatestGuard(t)
         /\ \A w \in Words(cfg) : \A b \in it.predicates_[w] :
              \E t \in ThreadMapTriples(cfg) : PackedAt(cfg, t) = <<w, b>>

\* a recomputed mask with set bits in the second and fourth byte of the first
\* word and in the second word, and the bit of the last access clear
C29_Witness ==
    /\ mask_state = "computed" /\ it.computed >= 2
    /\ kPredicateWordCount(cfg) = 2
    /\ kAccessesPerVector(cfg) = 2
    /\ 8 \in it.predicates_[0] /\ 27 \in it.predicates_[0]
    /\ it.predicates_[1] = {0}
    /\ ~ValidAt(cfg, it, [v |-> 1, c |-> 2, s |-> 2])
    /\ Cursor(it) # [v |-> 0, c |-> 0, s |-> 0]

----------------------------------------------------------------------------
(* C30  Every tile-boundary wrap of operator++ after the first one only    *)
(* applies the precomputed full-tile pointer increment: after such a wrap  *)
(* the pointer addresses the first access of the next tile along the       *)
(* advance axis, exactly one full-tile increment (inc_advance_) beyond the *)
(* first access of the tile just finished, and the predicate mask is       *)
(* untouched.  Stated for the pitch-linear and the affine rank-2 iterator: *)
(* from the first access of a tile, one traversal of the tile ends with a  *)
(* wrap, and a second traversal ends with a wrap that is not the first.    *)
RECURSIVE Advanced(_, _, _)
\* the iterator after n calls of operator++
Advanced(c, i, n) ==
    IF n = 0 THEN i ELSE Advanced(c, operator_increment_of(c, i), n - 1)

\* operator++ from the first access of a tile up to and including the wrap
TraversedOnce(c, i) == Advanced(c, i, kPredicateCount(c))

FullTileIncrement(c) ==
    IF IsAffine(c) THEN affine_Params(c).inc_advance_ ELSE Params(c).inc_advance_

C30_LaterWrapsAdvanceOneTile ==
    Cursor(it) = [v |-> 0, c |-> 0, s |-> 0] =>
        LET finished == TraversedOnce(cfg, it)
            wrapped  == TraversedOnce(cfg, finished)
        IN  /\ Cursor(finished) = [v |-> 0, c |-> 0, s |-> 0]
            /\ wrapped.predicates_ = finished.predicates_
            /\ wrapped.pointer_ = finished.pointer_ + FullTileIncrement(cfg)

\* what operator++ does at every wrap, the first one included: the iterator
\* is back in the state it had at the first access of the tile just finished
WrapReturnsToTileStart ==
    Cursor(it) = [v |-> 0, c |-> 0, s |-> 0] =>
        LET finished == TraversedOnce(cfg, it)
            wrapped  == TraversedOnce(cfg, finished)
        IN  finished = it /\ wrapped = it

----------------------------------------------------------------------------
(* C31  operator++ returns to the start of the tile.  From cursor (0,0,0), *)
(* after exactly kAccessesPerVector * Iterations::kContiguous *            *)
(* Iterations::kStrided calls of operator++ (and after no smaller positive *)
(* number of calls) the cursor is (0,0,0) again and the byte pointer has   *)
(* the value it had before those calls: the last of the calls, the tile    *)
(* wrap, adds inc_next_ and subtracts inc_advance_.  This holds for the    *)
(* pitch-linear and for the affine rank-2 iterator, on the residue tile    *)
(* and in steady state.  No other field changes either, so any number of   *)
(* operator++ calls leaves the iterator on the tile it is on: another tile *)
(* is reached by add_tile_offset only.                                     *)

\* Params::inc_next_ of the specialization selected by c.Layout
NextTileIncrement(c) ==
    IF IsAffine(c) THEN affine_Params(c).inc_next_ ELSE Params(c).inc_next_

\* the specializations whose operator++ moves pointer_
MovesPointer(c) == IsAffine(c) \/ Direct(c)

FirstAccess == [v |-> 0, c |-> 0, s |-> 0]

----------------------------------------------------------------------------
(* C32  The increments of the affine rank-2 Params are mutually            *)
(* consistent: inc_next_strided_ = inc_strided_ - (Iterations::kContiguous *)
(* - 1) * inc_contiguous_ and inc_next_ = inc_advance_ -                   *)
(* (Iterations::kContiguous - 1) * inc_contiguous_ - (Iterations::kStrided *)
(* - 1) * inc_strided_, so the increments operator++ applies on one walk   *)
(* of a tile (inc_contiguous_ inside a row, inc_next_strided_ between      *)
(* rows) followed by inc_next_ add up to exactly inc_advance_.  They are a *)
(* function of the strides and the thread map only (affine_Params reads    *)
(* nothing of the iterator state), so no call of the iterator changes      *)
(* them.                                                                   *)

\* what the steps of operator++ before the wrap add to the pointer
WalkIncrements(c) ==
    LET p == affine_Params(c)
    IN  c.Iterations.strided * (c.Iterations.contiguous - 1) * p.inc_contiguous_
        + (c.Iterations.strided - 1) * p.inc_next_strided_

C32_AffineIncrementsConsistent ==
    IsAffine(cfg) =>
        LET p == affine_Params(cfg)
        IN  /\ p.inc_next_strided_ =
                   p.inc_strided_
                   - (cfg.Iterations.contiguous - 1) * p.inc_contiguous_
            /\ p.inc_next_ =
                   p.inc_advance_
                   - (cfg.Iterations.contiguous - 1) * p.inc_contiguous_
                   - (cfg.Iterations.strided - 1) * p.inc_strided_
            /\ WalkIncrements(cfg) + p.inc_next_ = p.inc_advance_
            /\ Cursor(it) = FirstAccess =>
                   LET last == Advanced(cfg, it, kPredicateCount(cfg) - 1)
                   IN  /\ last.pointer_ - it.pointer_ = WalkIncrements(cfg)
                       /\ last.pointer_ + p.inc_next_
                             = it.pointer_ + p.inc_advance_

\* an affine iterator advancing along the contiguous axis, where inc_next_
\* is negative and differs from every other increment, at the first access
\* of a tile in steady state
C32_Witness ==
    /\ IsAffine(cfg)
    /\ cfg.kAdvanceRank = 0
    /\ cfg.Iterations.contiguous > 1 /\ cfg.Iterations.strided > 1
    /\ affine_Params(cfg).inc_next_ < 0
    /\ affine_Params(cfg).inc_next_strided_ > 0
    /\ affine_Params(cfg).inc_next_strided_ # affine_Params(cfg).inc_strided_
    /\ calls.tile >= 1
    /\ Cursor(it) = FirstAccess
    /\ Advanced(cfg, it, kPredicateCount(cfg) - 1).pointer_
          = it.pointer_ + WalkIncrements(cfg)

----------------------------------------------------------------------------
(* C33  Tile windows partition the advance axis.  After the first          *)
(* add_tile_offset the iterator's tile starts, along the advance axis, at  *)
(* threadblock offset + residue offset, and the distance from there to the *)
(* extent is a non-negative exact multiple of the tile size: the residue   *)
(* window [offset, offset + residue) and the full-tile windows that follow *)
(* are pairwise disjoint and together cover [offset, extent) exactly, the  *)
(* last full tile ending at the extent.  As claimed this is for every      *)
(* threadblock offset not exceeding the extent; it holds for every         *)
(* threadblock offset strictly below the extent.                           *)

\* where the tile of the iterator starts along the advance axis, from the
\* thread offset the iterator holds
HeldTileStart ==
    Adv(cfg.kAdvanceRank, it.thread_offset_)
      - Adv(cfg.kAdvanceRank, initial_offset(cfg, cfg.thread_id))

\* the full-tile windows between first and the extent, and the residue window
FullTileWindow(first, k) == first + (k - 1) * AdvTile .. first + k * AdvTile - 1

ResidueWindow == AdvOffset .. AdvOffset + AdvResidue - 1

WindowsPartition ==
    LET first    == HeldTileStart
        distance == AdvExtent - first
        tiles    == distance \div AdvTile
    IN  /\ first = AdvOffset + AdvResidue
        /\ distance >= 0
        /\ distance % AdvTile = 0
        /\ ResidueWindow # {}
        /\ ResidueWindow \cup UNION { FullTileWindow(first, k) : k \in 1 .. tiles }
              = AdvOffset .. AdvExtent - 1
        /\ \A k \in 1 .. tiles :
              /\ ResidueWindow \cap FullTileWindow(first, k) = {}
              /\ Cardinality(FullTileWindow(first, k)) = AdvTile
              /\ \A j \in 1 .. tiles :
                    j # k => FullTileWindow(first, j) \cap FullTileWindow(first, k) = {}
        /\ tiles > 0 => AdvExtent - 1 \in FullTileWindow(first, tiles)

\* the claim as stated: threadblock offset not exceeding the extent
C33_WindowsPartitionUpToExtent ==
    (~it.is_residue_tile_ /\ AdvOffset <= AdvExtent) => WindowsPartition

\* the claim for a threadblock offset below the extent
C33_WindowsPartitionBelowExtent ==
    (~it.is_residue_tile_ /\ AdvOffset < AdvExtent) => WindowsPartition

\* after the first add_tile_offset: a residue window of 1 out of a tile of 4
\* followed by one full tile, from threadblock offset 8 to extent 13
C33_Witness ==
    /\ ~it.is_residue_tile_
    /\ calls.tile >= 1
    /\ AdvOffset = 8 /\ AdvExtent = 13 /\ AdvTile = 4
    /\ AdvResidue = 1
    /\ HeldTileStart = 9
    /\ WindowsPartition

----------------------------------------------------------------------------
(* C34  The predicates are computed from the extent in two places only:    *)
(* the constructor and the first add_tile_offset call.  Whatever the       *)
(* sequence of operations, compute_predicates_ has run once while the      *)
(* iterator is on the residue tile and twice afterwards, never more;       *)
(* operator++, set_iteration_index, add_pointer_offset and every           *)
(* add_tile_offset call after the first do not run it and leave the        *)
(* predicate words as they are.  Stated for the pitch-linear and the       *)
(* affine rank-2 iterator.                                                 *)

\* the calls that never compute predicates
AfterNonComputingCall(c, i) ==
    { operator_increment_of(c, i) }
      \cup { set_iteration_index(c, i, index) : index \in IndexInputs(c) }
      \cup { add_pointer_offset(c, i, o) : o \in {-1, 3} }
      \cup IF i.is_residue_tile_
           THEN {}
           ELSE { add_tile_offset_of(c, i, d) : d \in ClaimDeltas }

----------------------------------------------------------------------------
(* C35  Cursor range invariant.  In every state reached by construction,   *)
(* operator++, add_tile_offset, the mask operations and                    *)
(* set_iteration_index(i) with 0 <= i < kPredicateCount, the cursor        *)
(* satisfies 0 <= iteration_vector_ < kAccessesPerVector,                  *)
(* 0 <= iteration_contiguous_ < Iterations::kContiguous and                *)
(* 0 <= iteration_strided_ < Iterations::kStrided; hence the predicate     *)
(* index valid() computes is below kPredicateCount and the word it reads   *)
(* is below kPredicateWordCount.  The same holds of the cursor that        *)
(* operator++ and set_iteration_index(i), for every such i, would leave.   *)

CursorInRange(c, i) ==
    /\ i.iteration_vector_ \in 0 .. kAccessesPerVector(c) - 1
    /\ i.iteration_contiguous_ \in 0 .. c.Iterations.contiguous - 1
    /\ i.iteration_strided_ \in 0 .. c.Iterations.strided - 1

\* valid() reads a word and a bit that exist
ValidIndexesMask(c, i) ==
    LET pred_idx == PredIdx(c, Cursor(i))
    IN  /\ pred_idx \in 0 .. kPredicateCount(c) - 1
        /\ PredWord(pred_idx) \in 0 .. kPredicateWordCount(c) - 1
        /\ PredWord(pred_idx) \in DOMAIN i.predicates_
        /\ PredBit(pred_idx) \in 0 .. kBitsPerWord - 1

C35_CursorInRange ==
    /\ CursorInRange(cfg, it)
    /\ ValidIndexesMask(cfg, it)
    /\ CursorInRange(cfg, operator_increment(cfg, it))
    /\ \A index \in 0 .. kPredicateCount(cfg) - 1 :
          /\ CursorInRange(cfg, set_iteration_index(cfg, it, index))
          /\ ValidIndexesMask(cfg, set_iteration_index(cfg, it, index))

\* the cursor on the last of 18 accesses, whose predicate is in the second
\* mask word, after set_iteration_index, add_tile_offset and set_mask calls
C35_Witness ==
    /\ kPredicateCount(cfg) = 18
    /\ kPredicateWordCount(cfg) = 2
    /\ AtLastAccess(cfg, it)
    /\ PredWord(PredIdx(cfg, Cursor(it))) = 1
    /\ calls.aux >= 1
    /\ calls.tile >= 1
    /\ mask_state = "set"

----------------------------------------------------------------------------
(* C36  set_iteration_index agrees with stepping.  For every i with        *)
(* 0 <= i < kPredicateCount, the cursor after set_iteration_index(i) is    *)
(* the cursor after set_iteration_index(0) followed by i calls of          *)
(* operator++, and the predicate index v + kAccessesPerVector * (c +       *)
(* Iterations::kContiguous * s) of that cursor is i.                       *)

RECURSIVE Stepped(_, _, _)
\* the pitch-linear iterator after 0, 1, ..., n calls of operator++, as a
\* sequence: Stepped(c, i, n)[k + 1] is the iterator after k calls
Stepped(c, i, n) ==
    IF n = 0 THEN << i >> ELSE << i >> \o Stepped(c, operator_increment(c, i), n - 1)

C36_SetIterationIndexAgreesWithStepping ==
    LET first   == set_iteration_index(cfg, it, 0)
        stepped == Stepped(cfg, first, kPredicateCount(cfg) - 1)
    IN  /\ Cursor(first) = FirstAccess
        /\ \A index \in 0 .. kPredicateCount(cfg) - 1 :
              LET set == set_iteration_index(cfg, it, index)
              IN  /\ Cursor(set) = Cursor(stepped[index + 1])
                  /\ PredIdx(cfg, Cursor(set)) = index

\* an iterator of 18 accesses on which set_iteration_index has been called
\* and which is not at the first access, so that set_iteration_index(0)
\* moves the cursor before the stepping starts
C36_Witness ==
    /\ kPredicateCount(cfg) = 18
    /\ kAccessesPerVector(cfg) = 2
    /\ calls.aux >= 1
    /\ Cursor(it) = [v |-> 1, c |-> 1, s |-> 2]
    /\ Cursor(set_iteration_index(cfg, it, 11)) = [v |-> 1, c |-> 2, s |-> 1]
    /\ Cursor(Stepped(cfg, set_iteration_index(cfg, it, 0), 11)[12])
          = [v |-> 1, c |-> 2, s |-> 1]

----------------------------------------------------------------------------
(* C37  Mask operations touch only the mask.  clear_mask, enable_mask,     *)
(* set_mask and get_mask leave the cursor, the byte pointer, the tracked   *)
(* coordinate offsets, the thread offset and the residue/steady phase flag *)
(* unchanged (get_mask leaves the mask unchanged too).  So the address     *)
(* get() returns on the fast path, and what a later operator++ or          *)
(* add_tile_offset does to the pointer and to every field other than the   *)
(* mask, do not depend on a mask operation performed before.               *)

\* the iterator after each of the mask operations that write the mask
AfterMaskOperation(c, i) ==
    { clear_mask(c, i, enable) : enable \in BOOLEAN }
      \cup { enable_mask(c, i) }
      \cup { set_mask(c, i, mask) : mask \in MaskInputs(c) }

\* iterator i carrying the predicate words of j
WithMaskOf(i, j) == [i EXCEPT !.predicates_ = j.predicates_]

C37_MaskOperationsTouchOnlyMask ==
    /\ get_mask(cfg, it) = it.predicates_
    /\ \A masked \in AfterMaskOperation(cfg, it) :
          /\ masked = WithMaskOf(it, masked)
          /\ MovesPointer(cfg) => get_of(cfg, masked) = get_of(cfg, it)
          /\ LET stepped == operator_increment_of(cfg, it)
             IN  operator_increment_of(cfg, masked) = WithMaskOf(stepped, masked)
          /\ \A d \in VariantTileDeltas :
                LET tile_offset == AxisCoord(cfg.kAdvanceRank, d[1], d[2])
                    plain == add_tile_offset_of(cfg, it, tile_offset)
                    after == add_tile_offset_of(cfg, masked, tile_offset)
                IN  /\ after.pointer_ = plain.pointer_
                    /\ WithMaskOf(after, plain) = plain

\* a gather iterator in steady state, away from the first access, whose
\* mask was overwritten by set_mask and differs from the computed one
C37_Witness ==
    /\ ~IsAffine(cfg)
    /\ cfg.Gather
    /\ mask_state = "overridden"
    /\ ~it.is_residue_tile_
    /\ calls.tile >= 1
    /\ calls.inc > 0
    /\ Cursor(it) # FirstAccess
    /\ it.coord_offset_ # make_Coord(0, 0)
    /\ it.pointer_ # 0
    /\ it.predicates_ # compute_predicates_(cfg, it, it.extent_, TRUE).predicates_

----------------------------------------------------------------------------
(* C38  set_iteration_index changes only the cursor triple: the byte       *)
(* pointer, the predicate words, the thread offset and the phase flag (and *)
(* every other field) are unchanged.  In particular the pointer is not     *)
(* moved to the strided row of the new index: that movement,               *)
(* inc_strided_ per strided row, is applied by operator++ only, so the     *)
(* iterator reached by stepping to index i holds a pointer                 *)
(* iteration_strided_ * inc_strided_ beyond the one set_iteration_index(i) *)
(* leaves when both start from the first access.                           *)

\* iterator i carrying the cursor of j
WithCursorOf(i, j) ==
    [i EXCEPT !.iteration_vector_     = j.iteration_vector_,
              !.iteration_contiguous_ = j.iteration_contiguous_,
              !.iteration_strided_    = j.iteration_strided_]

C38_SetIterationIndexMovesOnlyCursor ==
    LET first   == set_iteration_index(cfg, it, 0)
        stepped == Stepped(cfg, first, kPredicateCount(cfg) - 1)
    IN  \A index \in 0 .. kPredicateCount(cfg) - 1 :
           LET set == set_iteration_index(cfg, it, index)
           IN  /\ set = WithCursorOf(it, set)
               /\ set.pointer_ = it.pointer_
               /\ stepped[index + 1].pointer_ =
                     set.pointer_ + set.iteration_strided_ * Params(cfg).inc_strided_
               /\ stepped[index + 1] =
                     [set EXCEPT !.pointer_ = stepped[index + 1].pointer_]

\* set_iteration_index(17) called on the constructed iterator: the cursor
\* is on the last strided row and the pointer still on the first
C38_Witness ==
    /\ kPredicateCount(cfg) = 18
    /\ calls.aux >= 1
    /\ AtLastAccess(cfg, it)
    /\ it.iteration_strided_ = 2
    /\ Params(cfg).inc_strided_ > 0
    /\ it.is_residue_tile_
    /\ it.pointer_ = Construct(cfg).pointer_
    /\ Stepped(cfg, Construct(cfg), 17)[18].pointer_
          = it.pointer_ + 2 * Params(cfg).inc_strided_

====
